---- MODULE Spec2Model ----
(***************************************************************************)
(* Keyframe extraction service (AI-Service/key_frame_extractor_model.py).  *)
(*                                                                         *)
(* One KeyFrameExtractor instance handles requests one after the other.    *)
(* A request names a video and an optional output directory; the handler   *)
(* scores the low-resolution frames chunk by chunk, thresholds the scores  *)
(* into shot boundaries, cuts the full-resolution frames into shots,       *)
(* embeds every frame of every non-empty shot, clusters each shot and      *)
(* picks its keyframes, optionally saves frames, and answers with a        *)
(* KeyFrameExtractionResponse.                                             *)
(*                                                                         *)
(* Representation.                                                         *)
(*  - A Python list / numpy array is a sequence; Python position p is      *)
(*    TLA+ position p + 1.  Frame indices stay zero-based.                 *)
(*  - Optional[T] is a set with at most one element: None is {}.           *)
(*  - A transition score is an integer number of tenths (0.5 is 5).        *)
(*  - A feature vector is a sequence of integers.  A centroid is kept      *)
(*    as the pair (sum of the member vectors, number of members), so that  *)
(*    the mean is exact; distances to one centroid are compared through    *)
(*    cnt^2 * squared distance, which orders the members as the Euclidean  *)
(*    norm does.                                                           *)
(*  - chunk_size and min_cluster_size are scaled down from the defaults    *)
(*    32 and 60 so that several chunks and clustered shots occur in        *)
(*    videos of a few frames.                                              *)
(*                                                                         *)
(* Specifications.                                                         *)
(*  - Spec: the handler, request after request, faults included.           *)
(*  - SelectorSpec: select_keyframes called directly on one shot.          *)
(*  - SegmentSpec: extract_keyframes entered with any sorted boundary      *)
(*    list.                                                                *)
(*  - ChunkingSpec: detect_shot_boundaries against one scorer call on the  *)
(*    whole sequence.                                                      *)
(*  - OverrideSpec: the handler on bodies that carry threshold,            *)
(*    chunk_size or min_cluster_size.                                      *)
(*  - ConcurrentSpec: two invocations of the handler in flight.            *)
(***************************************************************************)
EXTENDS Integers, Sequences, FiniteSets, TLC

\* ------------------------------------------------------------------ bounds
\* number of frames of the longest video
MaxFrames == 3

\* cluster labels returned by the clusterer range over -1..MaxLabel
MaxLabel == 1

\* chunk_size of detect_shot_boundaries (line 112; default 32, scaled down)
ChunkSize == 2

\* min_cluster_size of adaptive_clustering (line 171; default 60, scaled
\* down)
MinClusterSize == 3

\* longest shot select_keyframes is called on directly
MaxShot == 4

\* --------------------------------------------------------------- constants
\* threshold of detect_shot_boundaries (line 112): 0.5, in tenths
Threshold == 5

\* the label HDBSCAN gives to unclustered points
Noise == 0 - 1

\* the scores a frame may get: at the threshold and above it
ScoreValues == {Threshold, Threshold + 1}

\* the embeddings a frame may get
FeatureVectors == {<<0>>, <<1>>}

\* the labels fit_predict may give a frame
LabelValues == Noise..MaxLabel

\* Optional[T]: None, and a present value
None == {}

Some(x) == {x}

\* ---------------------------------------------------------- list helpers
RECURSIVE Insert(_, _)
Insert(x, s) ==
    IF s = <<>> THEN <<x>>
    ELSE IF x <= Head(s) THEN <<x>> \o s
    ELSE <<Head(s)>> \o Insert(x, Tail(s))

RECURSIVE Sorted(_)
\* Python's sorted() on a list of integers
Sorted(s) == IF s = <<>> THEN <<>> ELSE Insert(Head(s), Sorted(Tail(s)))

Range(s) == {s[k] : k \in 1..Len(s)}

\* s[a:b] of Python: positions a..b-1, clipped to the list
Slice(s, a, b) ==
    LET lo == IF a > Len(s) THEN Len(s) ELSE a
        hi == IF b > Len(s) THEN Len(s) ELSE b
    IN  IF hi <= lo THEN <<>> ELSE [k \in 1..(hi - lo) |-> s[lo + k]]

\* range(n) of Python as a list: 0, 1, ..., n-1
Upto(n) == [k \in 1..n |-> k - 1]

\* np.argmax in the place of np.argmin: the first position holding the
\* largest value
ArgMax(d) ==
    CHOOSE k \in 1..Len(d) :
        /\ \A j \in 1..Len(d) : d[k] >= d[j]
        /\ \A j \in 1..(k - 1) : d[j] < d[k]

\* the last position holding the smallest value
ArgMinLast(d) ==
    CHOOSE k \in 1..Len(d) :
        /\ \A j \in 1..Len(d) : d[k] <= d[j]
        /\ \A j \in (k + 1)..Len(d) : d[j] > d[k]

\* np.argmin: the first position holding the smallest value
ArgMin(d) ==
    CHOOSE k \in 1..Len(d) :
        /\ \A j \in 1..Len(d) : d[k] <= d[j]
        /\ \A j \in 1..(k - 1) : d[j] > d[k]

\* np.unique(labels[labels != -1]): the distinct non-noise labels, ascending
RECURSIVE SetToSorted(_)
SetToSorted(S) ==
    IF S = {} THEN <<>>
    ELSE LET m == CHOOSE x \in S : \A y \in S : x <= y
         IN  <<m>> \o SetToSorted(S \ {m})

UniqueLabels(labels) == SetToSorted(Range(labels) \ {Noise})

\* [i for i, label in enumerate(labels) if label == cluster_id], ascending
RECURSIVE PositionsFrom(_, _, _)
PositionsFrom(labels, cluster_id, k) ==
    IF k > Len(labels) THEN <<>>
    ELSE IF labels[k] = cluster_id
         THEN <<k>> \o PositionsFrom(labels, cluster_id, k + 1)
         ELSE PositionsFrom(labels, cluster_id, k + 1)

ClusterIndices(labels, cluster_id) == PositionsFrom(labels, cluster_id, 1)

\* ------------------------------------------------------ vector arithmetic
RECURSIVE SumVectors(_)
SumVectors(vs) ==
    IF Len(vs) = 1 THEN Head(vs)
    ELSE LET rest == SumVectors(Tail(vs))
         IN  [d \in 1..Len(rest) |-> Head(vs)[d] + rest[d]]

\* np.mean(cluster_features, axis=0), kept exact as (sum, count)
Mean(vs) == [sum |-> SumVectors(vs), cnt |-> Len(vs)]

\* a row of the feature matrix used as a centroid
Row(v) == [sum |-> v, cnt |-> 1]

RECURSIVE SumSquares(_, _, _)
SumSquares(v, c, d) ==
    IF d > Len(v) THEN 0
    ELSE (c.cnt * v[d] - c.sum[d]) * (c.cnt * v[d] - c.sum[d])
         + SumSquares(v, c, d + 1)

\* np.linalg.norm(v - centroid), squared and scaled by cnt^2
Distance(v, c) == SumSquares(v, c, 1)

\* ------------------------------------------------------------- clustering
\* np.arange(n_samples) in the place of np.zeros: every frame its own label
Arange(n) == [k \in 1..n |-> k - 1]

\* np.zeros(n_samples, dtype=int)
Zeros(n) == [k \in 1..n |-> 0]

\* adaptive_clustering(features, min_cluster_size); fit_predict is the label
\* list HDBSCAN returns for these features (read only when it is run).
\* Returns (labels, centroids).
adaptive_clustering(features, min_cluster_size, fit_predict) ==
    LET n_samples == Len(features)
        labels == fit_predict
        unique_labels == UniqueLabels(labels)
        centroids ==
            [u \in 1..Len(unique_labels) |->
                LET members == ClusterIndices(labels, unique_labels[u])
                IN  Mean([m \in 1..Len(members) |-> features[members[m]]])]
        rows == [k \in 1..n_samples |-> Row(features[k])]
    IN  IF n_samples < min_cluster_size
        THEN [labels |-> Zeros(n_samples), centroids |-> rows]
        ELSE IF \A k \in 1..n_samples : labels[k] = Noise
        THEN [labels |-> Zeros(n_samples), centroids |-> rows]
        ELSE [labels |-> labels,
              centroids |-> IF Len(centroids) > 0 THEN centroids ELSE rows]

\* lines 216-218 with np.argmin(distances) used as a position in the shot,
\* not in the cluster
ClosestFrameLocal(labels, centroids, shot_features, shot_indices, u) ==
    LET unique_labels == UniqueLabels(labels)
        cluster_indices == ClusterIndices(labels, unique_labels[u])
        centroid == centroids[u]
        distances == [m \in 1..Len(cluster_indices) |->
                        Distance(shot_features[cluster_indices[m]], centroid)]
    IN  shot_indices[ArgMin(distances)]

\* the frame of one cluster that select_keyframes appends (lines 212-218)
ClosestFrame(labels, centroids, shot_features, shot_indices, u) ==
    LET unique_labels == UniqueLabels(labels)
        cluster_indices == ClusterIndices(labels, unique_labels[u])
        centroid == centroids[u]
        distances == [m \in 1..Len(cluster_indices) |->
                        Distance(shot_features[cluster_indices[m]], centroid)]
        closest_frame_idx == cluster_indices[ArgMin(distances)]
    IN  shot_indices[closest_frame_idx]

\* lines 202-204 without the single-cluster case: only a one-frame shot is
\* answered by its first frame, a single cluster goes through the loop
select_keyframes_by_centroid(shot_features, shot_indices, fit_predict) ==
    LET ac == adaptive_clustering(shot_features, MinClusterSize, fit_predict)
        labels == ac.labels
        centroids == ac.centroids
        unique_labels == UniqueLabels(labels)
        first == IF Len(shot_indices) = 0
                 THEN [raised |-> TRUE, keyframes |-> <<>>]
                 ELSE [raised |-> FALSE, keyframes |-> <<shot_indices[1]>>]
    IN  IF Len(shot_features) = 1
        THEN first
        ELSE IF Len(unique_labels) = 0
        THEN first
        ELSE [raised |-> FALSE,
              keyframes |->
                Sorted([u \in 1..Len(unique_labels) |->
                    ClosestFrame(labels, centroids, shot_features,
                                 shot_indices, u)])]

\* lines 203 and 208 appending 0, the position of the first frame within the
\* shot, in the place of shot_indices[0]
select_keyframes_first_position(shot_features, shot_indices, fit_predict) ==
    LET ac == adaptive_clustering(shot_features, MinClusterSize, fit_predict)
        labels == ac.labels
        centroids == ac.centroids
        unique_labels == UniqueLabels(labels)
        first == [raised |-> FALSE, keyframes |-> <<0>>]
    IN  IF \/ Len(shot_features) = 1
           \/ (Len(centroids) = 1 /\ \A k \in 1..Len(labels) : labels[k] # Noise)
        THEN first
        ELSE IF Len(unique_labels) = 0
        THEN first
        ELSE [raised |-> FALSE,
              keyframes |->
                Sorted([u \in 1..Len(unique_labels) |->
                    ClosestFrame(labels, centroids, shot_features,
                                 shot_indices, u)])]

\* select_keyframes(shot_frames, shot_features, shot_indices).
\* raised is TRUE when the call ends in an exception (shot_indices[0] of an
\* empty list); keyframes is the list returned otherwise.
select_keyframes(shot_features, shot_indices, fit_predict) ==
    LET ac == adaptive_clustering(shot_features, MinClusterSize, fit_predict)
        labels == ac.labels
        centroids == ac.centroids
        unique_labels == UniqueLabels(labels)
        first == IF Len(shot_indices) = 0
                 THEN [raised |-> TRUE, keyframes |-> <<>>]
                 ELSE [raised |-> FALSE, keyframes |-> <<shot_indices[1]>>]
    IN  IF \/ Len(shot_features) = 1
           \/ (Len(centroids) = 1 /\ \A k \in 1..Len(labels) : labels[k] # Noise)
        THEN first
        ELSE IF Len(unique_labels) = 0
        THEN first
        ELSE [raised |-> FALSE,
              keyframes |->
                Sorted([u \in 1..Len(unique_labels) |->
                    ClosestFrame(labels, centroids, shot_features,
                                 shot_indices, u)])]

\* ------------------------------------------------------------------ state
VARIABLES
    video,            \* the file behind video_path: readable, scores, feats
    hdb,              \* what clustering has given so far, by shot start
    pc,               \* position of the handler
    request,          \* the parsed KeyFrameExtractionRequest
    frames,           \* detect_shot_boundaries: the low-resolution frames
    all_predictions,  \* detect_shot_boundaries: scores collected so far
    i,                \* detect_shot_boundaries: start of the next chunk
    shot_boundaries,  \* __call__: the detected boundaries
    all_indices,      \* extract_keyframes: indices of the full-res frames
    shot_bounds,      \* extract_keyframes: [0] + shot_boundaries + [len]
    s,                \* extract_keyframes: position of the current shot
    shot_features,    \* extract_clip_features: vectors collected so far
    all_keyframes,    \* extract_keyframes: keyframes collected so far
    keyframe_indices, \* __call__: the keyframes returned by extract_keyframes
    sel,              \* the select_keyframes call that has just returned
    scorer_calls,     \* chunks handed to the transition scorer, in order
    embed_calls,      \* frames handed to the embedding provider, in order
    saved,            \* cv2.imwrite calls of the save_* methods, in order
    failure,          \* the exception being propagated, if any
    response,         \* the KeyFrameExtractionResponse sent, if any
    prev,             \* the last successful request: its directory and response
    data,             \* __call__: the JSON body of the request being handled
    suspended,        \* per invocation waiting at `await req.json()`: its body
    clip_model,       \* self.clip_model: its device and its train/eval mode
    reply,            \* backend: what the POST to the extraction service gives
    keyframe_result,  \* backend: the dictionary extract_keyframes returned
    bucket,           \* backend: what object storage answers, call by call
    objects,          \* backend: the keyframe images held in object storage
    frame_indices,    \* backend: the indices given to process_keyframes_*
    keyframe_results, \* backend: the list process_keyframes_* returned
    db,               \* backend: the Media, Keyframe and MediaEmbedding rows
    points,           \* backend: the points held in the vector database
    route             \* backend: position and locals of the running route

vars == <<video, hdb, pc, request, frames, all_predictions, i,
          shot_boundaries, all_indices, shot_bounds, s, shot_features,
          all_keyframes, keyframe_indices, sel, scorer_calls, embed_calls,
          saved, failure, response, prev, data, suspended, clip_model,
          reply, keyframe_result, bucket, objects, frame_indices,
          keyframe_results, db, points, route>>

\* the state of the backend, which no step of the extraction service touches
backend == <<reply, keyframe_result, bucket, objects, frame_indices,
             keyframe_results, db, points, route>>

\* the state of the extraction service, which no step of the backend touches
service == <<video, hdb, pc, request, frames, all_predictions, i,
             shot_boundaries, all_indices, shot_bounds, s, shot_features,
             all_keyframes, keyframe_indices, sel, scorer_calls, embed_calls,
             saved, failure, response, prev, data, suspended, clip_model>>

\* the videos a request may name: a file that cannot be opened, or a
\* readable file of up to MaxFrames frames; scores[f + 1] is the score the
\* transition scorer gives frame f, feats[f + 1] the embedding of frame f
Videos ==
    {[readable |-> FALSE, scores |-> <<>>, feats |-> <<>>]} \cup
    UNION {[readable : {TRUE},
            scores : [1..n -> ScoreValues],
            feats : [1..n -> FeatureVectors]] : n \in 0..MaxFrames}

OutputDirectories == {None, Some("out")}

NoRequest == [output_directory |-> None]

\* a JSON body: the declared field output_directory and the keys threshold,
\* chunk_size and min_cluster_size, each present or not
Body(output_directory, threshold, chunk_size, min_cluster_size) ==
    [output_directory |-> output_directory,
     threshold |-> threshold,
     chunk_size |-> chunk_size,
     min_cluster_size |-> min_cluster_size]

NoData == Body(None, None, None, None)

\* KeyFrameExtractionRequest(**data): the declared fields of the body; any
\* other key is dropped
Parse(body) == [output_directory |-> body.output_directory]

\* the invocations of __call__ that are in flight together
Handlers == {"a", "b"}

\* no invocation is waiting for its body
NoneSuspended == [h \in Handlers |-> None]

\* CLIPModel.from_pretrained(..., device_map='cuda:0'): on the GPU, in
\* evaluation mode
LoadedClipModel == [device |-> "cuda", training |-> FALSE]

\* model.to(device)
To(model, device) == [model EXCEPT !.device = device]

\* model.train() in the place of model.eval()
Train(model) == [model EXCEPT !.training = TRUE]

\* model.eval()
Eval(model) == [model EXCEPT !.training = FALSE]

\* no row, no object, no point, and no route running
EmptyDb == [media |-> {}, keyframes |-> <<>>, embeddings |-> {}]

\* a route at position p, its keyframe loop at result k, the locals
\* embedding_vector and qdrant_success not yet assigned
At(p, k) ==
    [pc |-> p, k |-> k,
     embedding_vector |-> "unset", qdrant_success |-> "unset"]

NoCall == At("idle", 0)

BackendIdle ==
    /\ reply = None
    /\ keyframe_result = None
    /\ bucket = None
    /\ objects = {}
    /\ frame_indices = <<>>
    /\ keyframe_results = None
    /\ db = EmptyDb
    /\ points = {}
    /\ route = NoCall

Init ==
    /\ video \in Videos
    /\ hdb = [f \in 0..MaxFrames |-> None]
    /\ pc = "idle"
    /\ request = NoRequest
    /\ frames = <<>>
    /\ all_predictions = <<>>
    /\ i = 0
    /\ shot_boundaries = <<>>
    /\ all_indices = <<>>
    /\ shot_bounds = <<>>
    /\ s = 0
    /\ shot_features = <<>>
    /\ all_keyframes = <<>>
    /\ keyframe_indices = <<>>
    /\ sel = None
    /\ scorer_calls = <<>>
    /\ embed_calls = <<>>
    /\ saved = <<>>
    /\ failure = None
    /\ response = None
    /\ prev = None
    /\ data = NoData
    /\ suspended = NoneSuspended
    /\ clip_model = LoadedClipModel
    /\ BackendIdle

\* ---------------------------------------------------------- collaborators
\* cv2.VideoCapture read loop of load_video / load_full_video_frames /
\* save_*: the frames read, named by their position in the file.  A file
\* that cannot be opened gives isOpened() = False and no frame.
ReadFrames == IF video.readable THEN Upto(Len(video.scores)) ELSE <<>>

load_video == ReadFrames

load_full_video_frames == ReadFrames

\* self.model(input_chunk) followed by sigmoid: one score per frame
Scorer(chunk) == [k \in 1..Len(chunk) |-> video.scores[chunk[k] + 1]]

\* model.get_image_features(**inputs) of one frame
Embed(frame) == video.feats[frame + 1]

\* ---------------------------------------------------------------- payload
\* KeyFrameExtractionResponse(status="success", shot_boundaries=...,
\* keyframes=...) of line 280
SuccessResponse(boundaries, keyframes) ==
    [status |-> "success",
     shot_boundaries |-> Some(boundaries),
     keyframes |-> Some(keyframes),
     message |-> None]

\* the except clause without the conversion: the partial lists are sent
PartialResponse(e) ==
    [status |-> "error",
     shot_boundaries |-> Some(shot_boundaries),
     keyframes |-> Some(Sorted(all_keyframes)),
     message |-> Some(e)]

\* KeyFrameExtractionResponse(status="error", message=str(e)) of line 291
ErrorResponse(e) ==
    [status |-> "error",
     shot_boundaries |-> None,
     keyframes |-> None,
     message |-> Some(e)]

\* raise: the exception leaves the try block of __call__
Raise(e) ==
    /\ failure' = Some([kind |-> e,
                        scorer_calls |-> scorer_calls',
                        embed_calls |-> embed_calls'])
    /\ pc' = "except"

\* ----------------------------------------------------------------- actions
fixed == <<backend, video, prev, data, suspended, clip_model>>

detect == <<frames, all_predictions, i>>

extract == <<all_indices, shot_bounds, s, shot_features, all_keyframes>>

calls == <<scorer_calls, embed_calls>>

\* __call__, lines 260-264: the body parses into a KeyFrameExtractionRequest
ReceiveRequest ==
    /\ pc = "idle"
    /\ \E output_directory \in OutputDirectories :
          data' = Body(output_directory, None, None, None)
    /\ request' = Parse(data')
    /\ pc' = "load_video"
    /\ UNCHANGED <<backend, video, prev, suspended, clip_model, hdb, detect,
                   shot_boundaries, extract, keyframe_indices, sel, calls,
                   saved, failure, response>>

\* __call__, lines 260-261: the body is no valid request; req.json() or the
\* pydantic constructor raises inside the try block
RejectRequest ==
    /\ pc = "idle"
    /\ UNCHANGED <<fixed, hdb, request, detect, shot_boundaries, extract,
                   keyframe_indices, sel, calls, saved, response>>
    /\ Raise("request")

\* detect_shot_boundaries, lines 114-118: load the frames; no frame at all
\* returns ([], []) at once
LoadVideo ==
    /\ pc = "load_video"
    /\ frames' = load_video
    /\ IF Len(frames') = 0
       THEN /\ shot_boundaries' = <<>>
            /\ pc' = "extract"
            /\ UNCHANGED <<all_predictions, i>>
       ELSE /\ all_predictions' = <<>>
            /\ i' = 0
            /\ pc' = "score"
            /\ UNCHANGED shot_boundaries
    /\ UNCHANGED <<fixed, hdb, request, extract, keyframe_indices, sel,
                   calls, saved, failure, response>>

\* the iteration with chunk = frames[i:i + chunk_size + 1]: every chunk
\* reaches one frame into the next
ScoreChunkOverlapping ==
    /\ pc = "score"
    /\ i < Len(frames)
    /\ LET chunk == Slice(frames, i, i + ChunkSize + 1)
       IN  /\ scorer_calls' = Append(scorer_calls, chunk)
           /\ all_predictions' = all_predictions \o Scorer(chunk)
    /\ i' = i + ChunkSize
    /\ UNCHANGED <<fixed, hdb, pc, request, frames, shot_boundaries, extract,
                   keyframe_indices, sel, embed_calls, saved, failure,
                   response>>

\* detect_shot_boundaries, lines 119-129: one iteration of the chunk loop
ScoreChunk ==
    /\ pc = "score"
    /\ i < Len(frames)
    /\ LET chunk == Slice(frames, i, i + ChunkSize)
       IN  /\ scorer_calls' = Append(scorer_calls, chunk)
           /\ all_predictions' = all_predictions \o Scorer(chunk)
    /\ i' = i + ChunkSize
    /\ UNCHANGED <<fixed, hdb, pc, request, frames, shot_boundaries, extract,
                   keyframe_indices, sel, embed_calls, saved, failure,
                   response>>

\* the iteration when self.model(...) raises, were the call tried again
ScoreChunkRetried ==
    /\ pc = "score"
    /\ i < Len(frames)
    /\ scorer_calls' = Append(scorer_calls, Slice(frames, i, i + ChunkSize))
    /\ UNCHANGED <<fixed, hdb, pc, request, detect, shot_boundaries, extract,
                   keyframe_indices, sel, embed_calls, saved, failure,
                   response>>

\* the iteration when self.model(...) raises: nothing catches it before the
\* except clause of __call__
ScoreChunkFails ==
    /\ pc = "score"
    /\ i < Len(frames)
    /\ scorer_calls' = Append(scorer_calls, Slice(frames, i, i + ChunkSize))
    /\ UNCHANGED <<fixed, hdb, request, detect, shot_boundaries, extract,
                   keyframe_indices, sel, embed_calls, saved, response>>
    /\ Raise("scorer")

\* lines 131-135 with prob >= threshold in the place of prob > threshold
RECURSIVE BoundariesAtOrAbove(_, _, _)
BoundariesAtOrAbove(predictions, threshold, k) ==
    IF k > Len(predictions) THEN <<>>
    ELSE IF predictions[k] >= threshold
         THEN <<k - 1>> \o BoundariesAtOrAbove(predictions, threshold, k + 1)
         ELSE BoundariesAtOrAbove(predictions, threshold, k + 1)

\* lines 131-135: [i for i, prob in enumerate(predictions) if prob > threshold]
RECURSIVE BoundariesFrom(_, _, _)
BoundariesFrom(predictions, threshold, k) ==
    IF k > Len(predictions) THEN <<>>
    ELSE IF predictions[k] > threshold
         THEN <<k - 1>> \o BoundariesFrom(predictions, threshold, k + 1)
         ELSE BoundariesFrom(predictions, threshold, k + 1)

Boundaries(predictions, threshold) == BoundariesFrom(predictions, threshold, 1)

\* lines 131-137 reached after the first iteration of the chunk loop: the
\* scores so far are thresholded while chunks are still to be scored
ThresholdScoresEarly ==
    /\ pc = "score"
    /\ i >= ChunkSize
    /\ shot_boundaries' = Boundaries(all_predictions, Threshold)
    /\ pc' = "extract"
    /\ UNCHANGED <<fixed, hdb, request, detect, extract, keyframe_indices,
                   sel, calls, saved, failure, response>>

\* detect_shot_boundaries, lines 131-137, and the return into __call__
ThresholdScores ==
    /\ pc = "score"
    /\ i >= Len(frames)
    /\ shot_boundaries' = Boundaries(all_predictions, Threshold)
    /\ pc' = "extract"
    /\ UNCHANGED <<fixed, hdb, request, detect, extract, keyframe_indices,
                   sel, calls, saved, failure, response>>

\* line 225: [0] + shot_boundaries + [len(all_frames)]
Padded(boundaries, n) == <<0>> \o boundaries \o <<n>>

\* lines 228-230 with every shot after the first starting one frame past its
\* boundary
ShotsPastBoundary(bounds) ==
    [k \in 1..(Len(bounds) - 1) |->
        <<IF k = 1 THEN bounds[k] ELSE bounds[k] + 1, bounds[k + 1]>>]

\* lines 228-230: shot k of the loop is [bounds[k], bounds[k + 1])
Shots(bounds) ==
    [k \in 1..(Len(bounds) - 1) |-> <<bounds[k], bounds[k + 1]>>]

\* line 225 as an update of the caller's list in place
PadInPlace(boundaries, n) == <<0>> \o boundaries \o <<n>>

\* line 225 rebinds the parameter: the caller's list stays as it was
CallerBoundaries(boundaries, n) == boundaries

\* line 227 were all_keyframes kept on the instance and never cleared
LoadFullVideoStale ==
    /\ pc = "extract"
    /\ all_indices' = load_full_video_frames
    /\ shot_bounds' = Padded(shot_boundaries, Len(all_indices'))
    /\ shot_boundaries' = CallerBoundaries(shot_boundaries, Len(all_indices'))
    /\ all_keyframes' =
          IF prev = None THEN <<>>
          ELSE CHOOSE k \in (CHOOSE p \in prev : TRUE).response.keyframes : TRUE
    /\ s' = 0
    /\ pc' = "shot"
    /\ UNCHANGED <<fixed, hdb, request, detect, shot_features,
                   keyframe_indices, sel, calls, saved, failure, response>>

\* extract_keyframes, lines 224-227
LoadFullVideo ==
    /\ pc = "extract"
    /\ all_indices' = load_full_video_frames
    /\ shot_bounds' = Padded(shot_boundaries, Len(all_indices'))
    /\ shot_boundaries' = CallerBoundaries(shot_boundaries, Len(all_indices'))
    /\ all_keyframes' = <<>>
    /\ s' = 0
    /\ pc' = "shot"
    /\ UNCHANGED <<fixed, hdb, request, detect, shot_features,
                   keyframe_indices, sel, calls, saved, failure, response>>

\* the frame indices of the current shot: all_indices[start_idx:end_idx]
ShotIndices ==
    Slice(all_indices, Shots(shot_bounds)[s + 1][1],
                       Shots(shot_bounds)[s + 1][2])

\* lines 235-236 without the test: an empty shot is processed like any other
ProcessEmptyShot ==
    /\ pc = "shot"
    /\ s < Len(shot_bounds) - 1
    /\ Len(ShotIndices) = 0
    /\ shot_features' = <<>>
    /\ sel' = None
    /\ pc' = "embed"
    /\ UNCHANGED <<fixed, hdb, request, detect, shot_boundaries, all_indices,
                   shot_bounds, s, all_keyframes, keyframe_indices, calls,
                   saved, failure, response>>

\* extract_keyframes, lines 228-236: a shot without frames is skipped
SkipEmptyShot ==
    /\ pc = "shot"
    /\ s < Len(shot_bounds) - 1
    /\ Len(ShotIndices) = 0
    /\ s' = s + 1
    /\ sel' = None
    /\ UNCHANGED <<fixed, hdb, pc, request, detect, shot_boundaries,
                   all_indices, shot_bounds, shot_features, all_keyframes,
                   keyframe_indices, calls, saved, failure, response>>

\* extract_keyframes, line 238, and extract_clip_features, lines 159-161
EnterShot ==
    /\ pc = "shot"
    /\ s < Len(shot_bounds) - 1
    /\ Len(ShotIndices) # 0
    /\ clip_model' = Eval(To(clip_model, "cuda"))
    /\ shot_features' = <<>>
    /\ sel' = None
    /\ pc' = "embed"
    /\ UNCHANGED <<backend, video, prev, data, suspended, hdb, request, detect,
                   shot_boundaries, all_indices, shot_bounds, s,
                   all_keyframes, keyframe_indices, calls, saved, failure,
                   response>>

\* the iteration of `for frame in reversed(frames)`
EmbedFrameReversed ==
    /\ pc = "embed"
    /\ Len(shot_features) < Len(ShotIndices)
    /\ LET frame == ShotIndices[Len(ShotIndices) - Len(shot_features)]
       IN  /\ embed_calls' = Append(embed_calls, frame)
           /\ shot_features' = Append(shot_features, Embed(frame))
    /\ UNCHANGED <<fixed, hdb, pc, request, detect, shot_boundaries,
                   all_indices, shot_bounds, s, all_keyframes,
                   keyframe_indices, sel, scorer_calls, saved, failure,
                   response>>

\* extract_clip_features, lines 163-167: one iteration of the frame loop
EmbedFrame ==
    /\ pc = "embed"
    /\ Len(shot_features) < Len(ShotIndices)
    /\ LET frame == ShotIndices[Len(shot_features) + 1]
       IN  /\ embed_calls' = Append(embed_calls, frame)
           /\ shot_features' = Append(shot_features, Embed(frame))
    /\ UNCHANGED <<fixed, hdb, pc, request, detect, shot_boundaries,
                   all_indices, shot_bounds, s, all_keyframes,
                   keyframe_indices, sel, scorer_calls, saved, failure,
                   response>>

\* the iteration when the processor or the CLIP model raises
EmbedFrameFails ==
    /\ pc = "embed"
    /\ Len(shot_features) < Len(ShotIndices)
    /\ embed_calls' =
          Append(embed_calls, ShotIndices[Len(shot_features) + 1])
    /\ UNCHANGED <<fixed, hdb, request, detect, shot_boundaries, extract,
                   keyframe_indices, sel, scorer_calls, saved, response>>
    /\ Raise("embedding")

\* extract_keyframes, lines 241-244: select_keyframes on the embedded shot.
\* HDBSCAN is run when the shot has min_cluster_size frames or more; it is
\* deterministic, so a shot clustered before is clustered the same way and
\* yields the keyframes it yielded then.
SelectShot ==
    /\ pc = "embed"
    /\ Len(shot_features) = Len(ShotIndices)
    /\ LET start == shot_bounds[s + 1]
           clustered == Len(shot_features) >= MinClusterSize
       IN  \E fit_predict \in IF clustered
                              THEN [1..Len(shot_features) -> LabelValues]
                              ELSE {<<>>} :
             LET result == select_keyframes(shot_features, ShotIndices,
                                            fit_predict)
             IN  /\ clustered /\ hdb[start] # None
                        => hdb[start] = Some(result.keyframes)
                 /\ hdb' = IF clustered
                           THEN [hdb EXCEPT ![start] = Some(result.keyframes)]
                           ELSE hdb
                 /\ sel' = Some([shot_indices |-> ShotIndices,
                                 shot_features |-> shot_features,
                                 clustered |-> clustered,
                                 fit_predict |-> fit_predict,
                                 raised |-> result.raised,
                                 keyframes |-> result.keyframes])
                 /\ IF result.raised
                    THEN /\ UNCHANGED <<calls, all_keyframes, s>>
                         /\ Raise("select")
                    ELSE /\ all_keyframes' = all_keyframes \o result.keyframes
                         /\ s' = s + 1
                         /\ pc' = "shot"
                         /\ UNCHANGED <<failure, calls>>
    /\ UNCHANGED <<fixed, request, detect, shot_boundaries, all_indices,
                   shot_bounds, shot_features, keyframe_indices, saved,
                   response>>

\* extract_keyframes, line 246, and the return into __call__
ShotsDone ==
    /\ pc = "shot"
    /\ s >= Len(shot_bounds) - 1
    /\ keyframe_indices' = Sorted(all_keyframes)
    /\ sel' = None
    /\ pc' = "save"
    /\ UNCHANGED <<fixed, hdb, request, detect, shot_boundaries, extract,
                   calls, saved, failure, response>>

\* the read loop of a save_* method with frame_count incremented before
\* the membership test: the frame after each listed index is written
RECURSIVE WrittenShifted(_, _, _)
WrittenShifted(kind, indices, k) ==
    IF k > Len(ReadFrames) THEN <<>>
    ELSE IF ReadFrames[k] + 1 \in Range(indices)
         THEN <<<<kind, ReadFrames[k]>>>> \o WrittenShifted(kind, indices, k + 1)
         ELSE WrittenShifted(kind, indices, k + 1)

\* the cv2.imwrite calls of one save_* method from frame k of the read loop
\* on: one for every frame whose frame_count is in indices (lines 80-88,
\* 100-108)
RECURSIVE WrittenFrom(_, _, _)
WrittenFrom(kind, indices, k) ==
    IF k > Len(ReadFrames) THEN <<>>
    ELSE IF ReadFrames[k] \in Range(indices)
         THEN <<<<kind, ReadFrames[k]>>>> \o WrittenFrom(kind, indices, k + 1)
         ELSE WrittenFrom(kind, indices, k + 1)

Written(kind, indices) == WrittenFrom(kind, indices, 1)

\* __call__, line 273: no output directory, nothing is saved
SkipSave ==
    /\ pc = "save"
    /\ request.output_directory = None
    /\ pc' = "respond"
    /\ UNCHANGED <<fixed, hdb, request, detect, shot_boundaries, extract,
                   keyframe_indices, sel, calls, saved, failure, response>>

\* __call__, line 276: save_boundary_frames
SaveBoundaryFrames ==
    /\ pc = "save"
    /\ request.output_directory # None
    /\ saved' = saved \o Written("boundary", shot_boundaries)
    /\ pc' = "save_keyframes"
    /\ UNCHANGED <<fixed, hdb, request, detect, shot_boundaries, extract,
                   keyframe_indices, sel, calls, failure, response>>

\* __call__, line 277: save_keyframes
SaveKeyframes ==
    /\ pc = "save_keyframes"
    /\ saved' = saved \o Written("keyframe", keyframe_indices)
    /\ pc' = "respond"
    /\ UNCHANGED <<fixed, hdb, request, detect, shot_boundaries, extract,
                   keyframe_indices, sel, calls, failure, response>>

\* either save_* method when os.makedirs or cv2.imwrite raises (a directory
\* that cannot be created, a full disk)
SaveFails ==
    /\ \/ pc = "save" /\ request.output_directory # None
       \/ pc = "save_keyframes"
    /\ UNCHANGED <<fixed, hdb, request, detect, shot_boundaries, extract,
                   keyframe_indices, sel, calls, saved, response>>
    /\ Raise("save")

\* __call__, lines 280-286
RespondSuccess ==
    /\ pc = "respond"
    /\ response' = Some(SuccessResponse(shot_boundaries, keyframe_indices))
    /\ pc' = "done"
    /\ UNCHANGED <<fixed, hdb, request, detect, shot_boundaries, extract,
                   keyframe_indices, sel, calls, saved, failure>>

\* __call__, lines 288-298
RespondError ==
    /\ pc = "except"
    /\ \E e \in failure : response' = Some(ErrorResponse(e.kind))
    /\ pc' = "done"
    /\ UNCHANGED <<fixed, hdb, request, detect, shot_boundaries, extract,
                   keyframe_indices, sel, calls, saved, failure>>

\* __call__ has returned: its locals are gone, the instance is idle again
Finish ==
    /\ pc = "done"
    /\ prev' = IF \E r \in response : r.status = "success"
               THEN {[output_directory |-> request.output_directory,
                      response |-> r] : r \in response}
               ELSE prev
    /\ pc' = "idle"
    /\ request' = NoRequest
    /\ frames' = <<>>
    /\ all_predictions' = <<>>
    /\ i' = 0
    /\ shot_boundaries' = <<>>
    /\ all_indices' = <<>>
    /\ shot_bounds' = <<>>
    /\ s' = 0
    /\ shot_features' = <<>>
    /\ all_keyframes' = <<>>
    /\ keyframe_indices' = <<>>
    /\ sel' = None
    /\ scorer_calls' = <<>>
    /\ embed_calls' = <<>>
    /\ saved' = <<>>
    /\ failure' = None
    /\ response' = None
    /\ data' = NoData
    /\ UNCHANGED <<backend, video, hdb, suspended, clip_model>>

Next ==
    \/ ReceiveRequest
    \/ RejectRequest
    \/ LoadVideo
    \/ ScoreChunk
    \/ ScoreChunkFails
    \/ ThresholdScores
    \/ LoadFullVideo
    \/ SkipEmptyShot
    \/ EnterShot
    \/ EmbedFrame
    \/ EmbedFrameFails
    \/ SelectShot
    \/ ShotsDone
    \/ SkipSave
    \/ SaveBoundaryFrames
    \/ SaveKeyframes
    \/ SaveFails
    \/ RespondSuccess
    \/ RespondError
    \/ Finish

Spec == Init /\ [][Next]_vars

\* ------------------------------------------- requests that carry overrides
\* values a body may give for the keys KeyFrameExtractionRequest does not
\* declare: each absent, or present with a value other than the default
ThresholdOverrides == {None, Some(Threshold + 1)}

ChunkSizeOverrides == {None, Some(ChunkSize - 1)}

MinClusterSizeOverrides == {None, Some(MinClusterSize - 1)}

\* __call__, lines 260-264, on a body that holds one or more of the keys
\* threshold, chunk_size and min_cluster_size next to the declared fields
ReceiveWithOverrides ==
    /\ pc = "idle"
    /\ \E output_directory \in OutputDirectories :
       \E threshold \in ThresholdOverrides :
       \E chunk_size \in ChunkSizeOverrides :
       \E min_cluster_size \in MinClusterSizeOverrides :
          /\ <<threshold, chunk_size, min_cluster_size>> # <<None, None, None>>
          /\ data' = Body(output_directory, threshold, chunk_size,
                          min_cluster_size)
    /\ request' = Parse(data')
    /\ pc' = "load_video"
    /\ UNCHANGED <<backend, video, prev, suspended, clip_model, hdb, detect,
                   shot_boundaries, extract, keyframe_indices, sel, calls,
                   saved, failure, response>>

OverrideNext ==
    \/ ReceiveWithOverrides
    \/ LoadVideo
    \/ ScoreChunk
    \/ ThresholdScores
    \/ LoadFullVideo
    \/ SkipEmptyShot
    \/ EnterShot
    \/ EmbedFrame
    \/ SelectShot
    \/ ShotsDone
    \/ SkipSave
    \/ SaveBoundaryFrames
    \/ SaveKeyframes
    \/ RespondSuccess
    \/ Finish

OverrideSpec == Init /\ [][OverrideNext]_vars

\* ---------------------------------------------- two invocations in flight
\* __call__ is a coroutine and `await req.json()` (line 260) is its only
\* await: an invocation can be entered and wait there while no other one
\* holds the event loop; once resumed it runs lines 261-298 without yielding.
InFlight ==
    Cardinality({h \in Handlers : suspended[h] # None})
        + (IF pc = "idle" THEN 0 ELSE 1)

\* __call__, lines 258-260: an invocation is entered and waits for its
\* body.  The bodies name no output directory: the save_* methods write
\* files only and touch neither the payload nor the instance.
Arrive ==
    /\ pc = "idle"
    /\ InFlight < Cardinality(Handlers)
    /\ \E h \in Handlers :
          /\ suspended[h] = None
          /\ suspended' =
                [suspended EXCEPT ![h] = Some(Body(None, None, None, None))]
    /\ UNCHANGED <<backend, video, prev, data, clip_model, hdb, pc, request, detect,
                   shot_boundaries, extract, keyframe_indices, sel, calls,
                   saved, failure, response>>

\* __call__, lines 260-264: a waiting invocation gets its body and goes on
Resume ==
    /\ pc = "idle"
    /\ \E h \in Handlers : \E body \in suspended[h] :
          /\ data' = body
          /\ suspended' = [suspended EXCEPT ![h] = None]
    /\ request' = Parse(data')
    /\ pc' = "load_video"
    /\ UNCHANGED <<backend, video, prev, clip_model, hdb, detect, shot_boundaries,
                   extract, keyframe_indices, sel, calls, saved, failure,
                   response>>

ConcurrentNext ==
    \/ Arrive
    \/ Resume
    \/ LoadVideo
    \/ ScoreChunk
    \/ ThresholdScores
    \/ LoadFullVideo
    \/ SkipEmptyShot
    \/ EnterShot
    \/ EmbedFrame
    \/ SelectShot
    \/ ShotsDone
    \/ SkipSave
    \/ RespondSuccess
    \/ Finish

ConcurrentSpec == Init /\ [][ConcurrentNext]_vars

\* ------------------------------------------------- the selector on its own
\* select_keyframes called directly on one shot [a, b) of a video, embedded
\* frame by frame: every shot of 0..MaxShot frames, the empty one included
SelectorInit ==
    /\ video \in UNION {[readable : {TRUE},
                          scores : {[k \in 1..n |-> Threshold]},
                          feats : [1..n -> FeatureVectors]] : n \in 0..MaxShot}
    /\ hdb = [f \in 0..MaxShot |-> None]
    /\ pc = "embed"
    /\ request = NoRequest
    /\ frames = <<>>
    /\ all_predictions = <<>>
    /\ i = 0
    /\ shot_boundaries = <<>>
    /\ all_indices = Upto(Len(video.feats))
    /\ \E a \in 0..Len(video.feats) : \E b \in a..Len(video.feats) :
          /\ shot_bounds = <<a, b>>
          /\ shot_features = Slice(video.feats, a, b)
    /\ s = 0
    /\ all_keyframes = <<>>
    /\ keyframe_indices = <<>>
    /\ sel = None
    /\ scorer_calls = <<>>
    /\ embed_calls = <<>>
    /\ saved = <<>>
    /\ failure = None
    /\ response = None
    /\ prev = None
    /\ data = NoData
    /\ suspended = NoneSuspended
    /\ clip_model = LoadedClipModel
    /\ BackendIdle

SelectorSpec == SelectorInit /\ [][SelectShot]_vars

\* ------------------------------------------------ segmentation on its own
\* extract_keyframes entered with any sorted boundary list within [0, N]
SortedLists(n) ==
    {b \in UNION {[1..m -> 0..n] : m \in 0..MaxFrames} :
        \A k \in 1..(Len(b) - 1) : b[k] <= b[k + 1]}

SegmentInit ==
    /\ video \in {[readable |-> TRUE,
                    scores |-> [k \in 1..n |-> Threshold],
                    feats |-> [k \in 1..n |-> <<0>>]] : n \in 0..MaxFrames}
    /\ hdb = [f \in 0..MaxFrames |-> None]
    /\ pc = "extract"
    /\ request = NoRequest
    /\ frames = <<>>
    /\ all_predictions = <<>>
    /\ i = 0
    /\ shot_boundaries \in SortedLists(Len(video.scores))
    /\ all_indices = <<>>
    /\ shot_bounds = <<>>
    /\ s = 0
    /\ shot_features = <<>>
    /\ all_keyframes = <<>>
    /\ keyframe_indices = <<>>
    /\ sel = None
    /\ scorer_calls = <<>>
    /\ embed_calls = <<>>
    /\ saved = <<>>
    /\ failure = None
    /\ response = None
    /\ prev = None
    /\ data = NoData
    /\ suspended = NoneSuspended
    /\ clip_model = LoadedClipModel
    /\ BackendIdle

SegmentSpec == SegmentInit /\ [][LoadFullVideo]_vars

\* ---------------------------------------------------- chunking on its own
\* self.model scores a frame from the tensor it is handed, so the score of a
\* frame is a function of the whole call.  detect_shot_boundaries always puts
\* frame f into the same chunk, and scores[f + 1] is the score f gets there;
\* one_call[f + 1] is the score f gets when the scorer is handed the whole
\* sequence in a single call.  A video of one chunk is scored by that very
\* call.
ChunkingVideos ==
    {v \in UNION {[readable : {TRUE},
                   scores : [1..n -> ScoreValues],
                   feats : {[k \in 1..n |-> <<0>>]},
                   one_call : [1..n -> ScoreValues]] : n \in 0..MaxFrames} :
        Len(v.scores) <= ChunkSize => v.one_call = v.scores}

ChunkingInit ==
    /\ video \in ChunkingVideos
    /\ hdb = [f \in 0..MaxFrames |-> None]
    /\ pc = "load_video"
    /\ request = NoRequest
    /\ frames = <<>>
    /\ all_predictions = <<>>
    /\ i = 0
    /\ shot_boundaries = <<>>
    /\ all_indices = <<>>
    /\ shot_bounds = <<>>
    /\ s = 0
    /\ shot_features = <<>>
    /\ all_keyframes = <<>>
    /\ keyframe_indices = <<>>
    /\ sel = None
    /\ scorer_calls = <<>>
    /\ embed_calls = <<>>
    /\ saved = <<>>
    /\ failure = None
    /\ response = None
    /\ prev = None
    /\ data = NoData
    /\ suspended = NoneSuspended
    /\ clip_model = LoadedClipModel
    /\ BackendIdle

ChunkingNext ==
    \/ LoadVideo
    \/ ScoreChunk
    \/ ThresholdScores

ChunkingSpec == ChunkingInit /\ [][ChunkingNext]_vars

\* ================================================================ backend
\* ---------------------------------------------- KeyframeExtractorClient
\* a key of a JSON object: absent, null, or a list
Missing == [present |-> FALSE, value |-> None]

Null == [present |-> TRUE, value |-> None]

List(q) == [present |-> TRUE, value |-> Some(q)]

\* the lists of frame indices a reply may carry
ReplyLists == {<<>>, <<0>>, <<0, 2>>, <<1, 1>>}

Keys == {Missing, Null} \cup {List(q) : q \in ReplyLists}

\* response.text that is no JSON document, and a document that is no object
NotJson ==
    [json |-> "invalid", status |-> None,
     keyframes |-> Missing, shot_boundaries |-> Missing]

NotObject ==
    [json |-> "array", status |-> None,
     keyframes |-> Missing, shot_boundaries |-> Missing]

Bodies ==
    {NotJson, NotObject} \cup
    [json : {"object"},
     status : {None, Some("success"), Some("error")},
     keyframes : Keys,
     shot_boundaries : Keys]

\* client.post raises: no connection, a timeout
TransportError == [transport |-> "raises", status_code |-> 0, body |-> NotJson]

\* what client.post can give: an exception, or a response with a status
\* code and a body
Replies ==
    {TransportError} \cup
    [transport : {"ok"}, status_code : {200, 500}, body : Bodies]

\* JSONResponse(response.dict()): a response of the service as the client
\* receives it, the unset optional fields as null
JsonOf(r) ==
    [json |-> "object",
     status |-> Some(r.status),
     keyframes |->
         IF r.keyframes = None THEN Null
         ELSE List(CHOOSE q \in r.keyframes : TRUE),
     shot_boundaries |->
         IF r.shot_boundaries = None THEN Null
         ELSE List(CHOOSE q \in r.shot_boundaries : TRUE)]

\* the reply of the service to a request that raised in its handler
ServiceErrorReply ==
    [transport |-> "ok", status_code |-> 500,
     body |-> JsonOf(ErrorResponse("error"))]

\* the dictionary both error returns build
ErrorDict ==
    [status |-> Some("error"),
     keyframes |-> List(<<>>),
     shot_boundaries |-> List(<<>>)]

Returns(d) == [raised |-> FALSE, dict |-> d]

Raises == [raised |-> TRUE, dict |-> ErrorDict]

\* the result is returned with the key as the service sent it
AsReceived(key) == key

\* `if not result.get(k): result[k] = []`: an absent key, null and the
\* empty list are all false
Ensured(key) ==
    IF ~key.present \/ key.value = None \/ key.value = Some(<<>>)
    THEN List(<<>>)
    ELSE key

\* the body of the try block: what it returns, or that it raises
TryBody(r) ==
    IF r.transport = "raises" THEN Raises
    ELSE IF r.status_code # 200 THEN Returns(ErrorDict)
    \* response.json() raises on a body that is no JSON, result.get on a
    \* document that is no object
    ELSE IF r.body.json # "object" THEN Raises
    \* the log line takes len(result.get('keyframes', [])): the default
    \* stands in for an absent key only, and len(None) raises
    ELSE IF r.body.keyframes = Null THEN Raises
    ELSE Returns([status |-> r.body.status,
                  keyframes |-> Ensured(r.body.keyframes),
                  shot_boundaries |-> Ensured(r.body.shot_boundaries)])

\* extract_keyframes: `except Exception` turns every raise of the try block
\* into the error dictionary
extract_keyframes(r) ==
    IF TryBody(r).raised THEN Returns(ErrorDict) ELSE TryBody(r)

\* the backend with everything but the client call at rest
ServiceIdle ==
    /\ video = [readable |-> FALSE, scores |-> <<>>, feats |-> <<>>]
    /\ hdb = [f \in 0..MaxFrames |-> None]
    /\ pc = "idle"
    /\ request = NoRequest
    /\ frames = <<>>
    /\ all_predictions = <<>>
    /\ i = 0
    /\ shot_boundaries = <<>>
    /\ all_indices = <<>>
    /\ shot_bounds = <<>>
    /\ s = 0
    /\ shot_features = <<>>
    /\ all_keyframes = <<>>
    /\ keyframe_indices = <<>>
    /\ sel = None
    /\ scorer_calls = <<>>
    /\ embed_calls = <<>>
    /\ saved = <<>>
    /\ failure = None
    /\ response = None
    /\ prev = None
    /\ data = NoData
    /\ suspended = NoneSuspended
    /\ clip_model = LoadedClipModel

\* a call of extract_keyframes about to be made, for each reply
ClientInit ==
    /\ ServiceIdle
    /\ reply \in {Some(r) : r \in Replies}
    /\ keyframe_result = None
    /\ bucket = None
    /\ objects = {}
    /\ frame_indices = <<>>
    /\ keyframe_results = None
    /\ db = EmptyDb
    /\ points = {}
    /\ route = At("extract_keyframes", 0)

\* keyframe_result = await keyframe_client.extract_keyframes(...)
CallClient ==
    /\ route.pc = "extract_keyframes"
    /\ \E r \in reply :
          keyframe_result' = Some(extract_keyframes(r))
    /\ route' = At("returned", 0)
    /\ UNCHANGED <<service, reply, bucket, objects, frame_indices,
                   keyframe_results, db, points>>

ClientSpec == ClientInit /\ [][CallClient]_vars

\* ------------------------------------------------- ObjectStorageManager
\* the longest list of indices given to process_keyframes_from_video
MaxRequested == 3

\* what object storage and the frame reader answer for one requested frame:
\* the frame is extracted and saved, extract_frame_from_video returns None,
\* or save_keyframe returns (False, str(e), "")
Answers == {"ok", "no_frame", "not_saved"}

\* get_file_data: the bytes of the video, b"" or None (any exception)
VideoData == {"bytes", "empty", "none"}

Buckets(n) == [video : VideoData, answers : [1..n -> Answers]]

\* the lists of at most n indices
IndexLists(n) == UNION {[1..m -> 0..(MaxFrames - 1)] : m \in 0..n}

\* the dictionary appended for one frame; the object key of a saved frame
\* ends in frame_{frame_idx}.jpg and is "" otherwise
ResultOf(frame_idx, answer) ==
    [success |-> answer = "ok",
     frame_idx |-> frame_idx,
     object_key |-> IF answer = "ok" THEN Some(frame_idx) ELSE None]

RECURSIVE ProcessUntilFailure(_, _, _)
\* the loop with a break at the first frame that fails
ProcessUntilFailure(b, indices, k) ==
    IF k > Len(indices) THEN <<>>
    ELSE IF b.answers[k] # "ok" THEN <<ResultOf(indices[k], b.answers[k])>>
    ELSE <<ResultOf(indices[k], b.answers[k])>>
             \o ProcessUntilFailure(b, indices, k + 1)

RECURSIVE ProcessFrom(_, _, _)
\* `for frame_idx in keyframe_indices`, from position k on
ProcessFrom(b, indices, k) ==
    IF k > Len(indices) THEN <<>>
    ELSE <<ResultOf(indices[k], b.answers[k])>>
             \o ProcessFrom(b, indices, k + 1)

\* process_keyframes_from_video: `if not video_data: return results`
process_keyframes_from_video(b, indices) ==
    IF b.video # "bytes" THEN <<>> ELSE ProcessFrom(b, indices, 1)

\* the images save_keyframe has uploaded, by the frame in their key
Uploaded(results) ==
    {results[k].frame_idx : k \in {j \in 1..Len(results) : results[j].success}}

\* a call of process_keyframes_from_video about to be made
StorageInit ==
    /\ ServiceIdle
    /\ reply = None
    /\ keyframe_result = None
    /\ bucket \in {Some(b) : b \in Buckets(MaxRequested)}
    /\ objects = {}
    /\ frame_indices \in IndexLists(MaxRequested)
    /\ keyframe_results = None
    /\ db = EmptyDb
    /\ points = {}
    /\ route = At("process_keyframes", 0)

\* keyframe_results = storage_manager.process_keyframes_from_video(...)
ProcessKeyframes ==
    /\ route.pc = "process_keyframes"
    /\ \E b \in bucket :
          LET results == process_keyframes_from_video(b, frame_indices)
          IN  /\ keyframe_results' = Some(results)
              /\ objects' = objects \cup Uploaded(results)
    /\ route' = At("results", 1)
    /\ UNCHANGED <<service, reply, keyframe_result, bucket, frame_indices,
                   db, points>>

StorageSpec == StorageInit /\ [][ProcessKeyframes]_vars

\* ----------------------------------------------------------- upload_media
\* the Media row crud.create_media inserts for the uploaded video
VideoMedia == [id |-> "m", media_type |-> "video"]

\* the Keyframe row crud.create_keyframe inserts
KeyframeRow(media, frame_idx) ==
    [media_id |-> media.id, frame_idx |-> frame_idx]

\* the MediaEmbedding row crud.create_media_embedding inserts; the point of
\* the vector database has the same embedding_id
EmbeddingRow(media, embedding_id) ==
    [media_id |-> media.id, embedding_id |-> embedding_id]

LongestReply ==
    CHOOSE q \in ReplyLists : \A p \in ReplyLists : Len(p) <= Len(q)

\* the route moves to position p with its loop at result k
Goto(p, k) == [route EXCEPT !.pc = p, !.k = k]

\* the video is in object storage and the album and type checks have passed
UploadInit ==
    /\ ServiceIdle
    /\ reply \in {Some(r) : r \in Replies}
    /\ keyframe_result = None
    /\ bucket \in {Some(b) : b \in Buckets(Len(LongestReply))}
    /\ objects = {}
    /\ frame_indices = <<>>
    /\ keyframe_results = None
    /\ db = EmptyDb
    /\ points = {}
    /\ route = At("create_media", 0)

\* media = crud.create_media(db=db, obj_in=media_in), then the presigned URL
\* of the video, which generate_presigned_url gives without raising
CreateMedia ==
    /\ route.pc = "create_media"
    /\ db' = [db EXCEPT !.media = @ \cup {VideoMedia}]
    /\ route' = Goto("extract_keyframes", 0)
    /\ UNCHANGED <<service, reply, keyframe_result, bucket, objects,
                   frame_indices, keyframe_results, points>>

\* `if keyframe_result and keyframe_result["status"] == "success" and
\* keyframe_result.get("keyframes")`: a dictionary without the key status
\* raises KeyError into the outer except clause, every other dictionary that
\* fails the test is logged; both ways the route goes on to its response
CheckResult ==
    /\ route.pc = "returned"
    /\ \E out \in keyframe_result :
          IF /\ out.dict.status = Some("success")
             /\ out.dict.keyframes \notin {Missing, Null, List(<<>>)}
          THEN /\ frame_indices' =
                      (CHOOSE q \in out.dict.keyframes.value : TRUE)
               /\ route' = Goto("process_keyframes", 0)
          ELSE /\ route' = Goto("respond", 0)
               /\ UNCHANGED frame_indices
    /\ UNCHANGED <<service, reply, keyframe_result, bucket, objects,
                   keyframe_results, db, points>>

\* the keyframe loop at a result of the list
AtResult ==
    /\ route.pc = "results"
    /\ \E results \in keyframe_results : route.k <= Len(results)

Result == (CHOOSE results \in keyframe_results : TRUE)[route.k]

\* the loop body has ended for the current result
NextResult == Goto("results", route.k + 1)

\* `if result["success"]` is false: nothing is done for the result
SkipResult ==
    /\ AtResult
    /\ ~Result.success
    /\ route' = NextResult
    /\ UNCHANGED <<service, reply, keyframe_result, bucket, objects,
                   frame_indices, keyframe_results, db, points>>

\* a Keyframe row is created for every result of the list
CreateKeyframeUnsaved ==
    /\ AtResult
    /\ db' = [db EXCEPT !.keyframes =
                  Append(@, KeyframeRow(VideoMedia, Result.frame_idx))]
    /\ route' = Goto("embed", route.k)
    /\ UNCHANGED <<service, reply, keyframe_result, bucket, objects,
                   frame_indices, keyframe_results, points>>

\* keyframe = crud.create_keyframe(db=db, obj_in=keyframe_in)
CreateKeyframe ==
    /\ AtResult
    /\ Result.success
    /\ db' = [db EXCEPT !.keyframes =
                  Append(@, KeyframeRow(VideoMedia, Result.frame_idx))]
    /\ route' = Goto("embed", route.k)
    /\ UNCHANGED <<service, reply, keyframe_result, bucket, objects,
                   frame_indices, keyframe_results, points>>

\* crud.create_keyframe raises (the database refuses the row): the outer
\* except clause logs it and the loop is over
CreateKeyframeFails ==
    /\ AtResult
    /\ Result.success
    /\ route' = Goto("respond", 0)
    /\ UNCHANGED <<service, reply, keyframe_result, bucket, objects,
                   frame_indices, keyframe_results, db, points>>

\* embedding_vector = await clip_client.get_image_embedding(...): a vector,
\* which takes the image to be readable under its key
EmbedKeyframe ==
    /\ route.pc = "embed"
    /\ \E key \in Result.object_key : key \in objects
    /\ route' = [Goto("create_point", route.k)
                     EXCEPT !.embedding_vector = "vector"]
    /\ UNCHANGED <<service, reply, keyframe_result, bucket, objects,
                   frame_indices, keyframe_results, db, points>>

\* get_image_embedding returns None (it catches its own exceptions) or an
\* empty vector: `if embedding_vector` is false
EmbedKeyframeNothing ==
    /\ route.pc = "embed"
    /\ route' = [NextResult EXCEPT !.embedding_vector = "nothing"]
    /\ UNCHANGED <<service, reply, keyframe_result, bucket, objects,
                   frame_indices, keyframe_results, db, points>>

\* the vector store refuses the point, and the image is deleted all the same
CreatePointFailsDeleting ==
    /\ route.pc = "create_point"
    /\ route' = [Goto("delete_file", route.k)
                     EXCEPT !.qdrant_success = "false"]
    /\ UNCHANGED <<service, reply, keyframe_result, bucket, objects,
                   frame_indices, keyframe_results, db, points>>

\* qdrant_success = qdrant_manager.create_point(...) returns True
CreatePoint ==
    /\ route.pc = "create_point"
    /\ points' = points \cup {route.k}
    /\ route' = [Goto("create_media_embedding", route.k)
                     EXCEPT !.qdrant_success = "true"]
    /\ UNCHANGED <<service, reply, keyframe_result, bucket, objects,
                   frame_indices, keyframe_results, db>>

\* create_point returns False (it catches its own exceptions)
CreatePointFails ==
    /\ route.pc = "create_point"
    /\ route' = [NextResult EXCEPT !.qdrant_success = "false"]
    /\ UNCHANGED <<service, reply, keyframe_result, bucket, objects,
                   frame_indices, keyframe_results, db, points>>

\* crud.create_media_embedding(db=db, obj_in=embedding_in)
CreateMediaEmbedding ==
    /\ route.pc = "create_media_embedding"
    /\ db' = [db EXCEPT !.embeddings =
                  @ \cup {EmbeddingRow(VideoMedia, route.k)}]
    /\ route' = Goto("delete_file", route.k)
    /\ UNCHANGED <<service, reply, keyframe_result, bucket, objects,
                   frame_indices, keyframe_results, points>>

\* crud.create_media_embedding raises into the inner except clause
CreateMediaEmbeddingFails ==
    /\ route.pc = "create_media_embedding"
    /\ route' = NextResult
    /\ UNCHANGED <<service, reply, keyframe_result, bucket, objects,
                   frame_indices, keyframe_results, db, points>>

\* storage_manager.delete_file(result["object_key"]) returns True
DeleteKeyframeImage ==
    /\ route.pc = "delete_file"
    /\ objects' = objects \ Result.object_key
    /\ route' = NextResult
    /\ UNCHANGED <<service, reply, keyframe_result, bucket, frame_indices,
                   keyframe_results, db, points>>

\* delete_file returns False (it catches its own exceptions): the image stays
DeleteKeyframeImageFails ==
    /\ route.pc = "delete_file"
    /\ route' = NextResult
    /\ UNCHANGED <<service, reply, keyframe_result, bucket, objects,
                   frame_indices, keyframe_results, db, points>>

\* the list of results is exhausted
ResultsDone ==
    /\ route.pc = "results"
    /\ \E results \in keyframe_results : route.k > Len(results)
    /\ route' = Goto("respond", 0)
    /\ UNCHANGED <<service, reply, keyframe_result, bucket, objects,
                   frame_indices, keyframe_results, db, points>>

\* media_response = MediaResponse.model_validate(media), its presigned URL,
\* `return media_response`
ReturnMediaResponse ==
    /\ route.pc = "respond"
    /\ route' = Goto("done", 0)
    /\ UNCHANGED <<service, reply, keyframe_result, bucket, objects,
                   frame_indices, keyframe_results, db, points>>

UploadNext ==
    \/ CreateMedia
    \/ CallClient
    \/ CheckResult
    \/ ProcessKeyframes
    \/ SkipResult
    \/ CreateKeyframe
    \/ CreateKeyframeFails
    \/ EmbedKeyframe
    \/ EmbedKeyframeNothing
    \/ CreatePoint
    \/ CreatePointFails
    \/ CreateMediaEmbedding
    \/ CreateMediaEmbeddingFails
    \/ DeleteKeyframeImage
    \/ DeleteKeyframeImageFails
    \/ ResultsDone
    \/ ReturnMediaResponse

UploadSpec == UploadInit /\ [][UploadNext]_vars

\* ----------------------------------------------------------- delete_media
\* the default of the parameter limit of get_keyframes_by_media
DefaultLimit == 100

\* the most Keyframe rows a video has
MaxRows == 101

PhotoMedia == [id |-> "p", media_type |-> "photo"]

\* the positions in the table Keyframe of the rows of a media item
RowsOfMedia(rows, media_id) ==
    {k \in 1..Len(rows) : rows[k].media_id = media_id}

\* get_keyframes_by_media: select ... where media_id = ... offset skip
\* limit limit, as positions in the table
get_keyframes_by_media(rows, media_id, skip, limit) ==
    LET matching == RowsOfMedia(rows, media_id)
    IN  {k \in matching :
            LET rank == Cardinality({j \in matching : j <= k})
            IN  skip < rank /\ rank <= skip + limit}

RECURSIVE Without(_, _, _)
\* the table after delete_keyframe of the rows at the positions gone
Without(rows, gone, k) ==
    IF k > Len(rows) THEN <<>>
    ELSE (IF k \in gone THEN <<>> ELSE <<rows[k]>>)
             \o Without(rows, gone, k + 1)

\* delete_keyframes_by_media: one query with the default skip and limit,
\* then delete_keyframe for each row it returned
delete_keyframes_by_media(rows, media_id) ==
    Without(rows, get_keyframes_by_media(rows, media_id, 0, DefaultLimit), 1)

\* n Keyframe rows of the video, after one row of another media item
KeyframeTable(n) ==
    <<[media_id |-> "other", frame_idx |-> 0]>>
        \o [k \in 1..n |-> KeyframeRow(VideoMedia, k - 1)]

\* the media item exists, belongs to the user, and has its rows
DeleteInit ==
    /\ ServiceIdle
    /\ reply = None
    /\ keyframe_result = None
    /\ bucket = None
    /\ objects = {"media.url"}
    /\ frame_indices = <<>>
    /\ keyframe_results = None
    /\ \E media \in {VideoMedia, PhotoMedia} :
       \E n \in 0..MaxRows : \E e \in SUBSET {1, 2} :
          /\ media = PhotoMedia => n = 0
          /\ db = [media |-> {media},
                   keyframes |-> KeyframeTable(n),
                   embeddings |-> {EmbeddingRow(media, id) : id \in e}]
          /\ points = e
    /\ route = At("delete_media_file", 0)

\* media = crud.get_media(db=db, media_id=media_id)
Media == CHOOSE media \in db.media : TRUE

\* `if media.url: storage_manager.delete_file(media.url)`, which returns
\* True or, having caught an exception, False
DeleteMediaFile ==
    /\ route.pc = "delete_media_file"
    /\ \/ objects' = objects \ {"media.url"}
       \/ UNCHANGED objects
    /\ route' = Goto("delete_keyframes", 0)
    /\ UNCHANGED <<service, reply, keyframe_result, bucket, frame_indices,
                   keyframe_results, db, points>>

\* `if media.media_type == "video":
\*      crud.delete_keyframes_by_media(db=db, media_id=media_id)`
DeleteKeyframes ==
    /\ route.pc = "delete_keyframes"
    /\ db' = [db EXCEPT !.keyframes =
                  IF Media.media_type = "video"
                  THEN delete_keyframes_by_media(@, Media.id)
                  ELSE @]
    /\ route' = Goto("delete_embeddings", 0)
    /\ UNCHANGED <<service, reply, keyframe_result, bucket, objects,
                   frame_indices, keyframe_results, points>>

\* the loop over crud.get_media_embeddings_by_media: delete_point and
\* crud.delete_media_embedding for each row
DeleteEmbeddings ==
    /\ route.pc = "delete_embeddings"
    /\ LET gone == {e \in db.embeddings : e.media_id = Media.id}
       IN  /\ points' = points \ {e.embedding_id : e \in gone}
           /\ db' = [db EXCEPT !.embeddings = @ \ gone]
    /\ route' = Goto("delete_media_row", 0)
    /\ UNCHANGED <<service, reply, keyframe_result, bucket, objects,
                   frame_indices, keyframe_results>>

\* crud.delete_media(db=db, db_obj=media): db.delete and db.commit
DeleteMediaRow ==
    /\ route.pc = "delete_media_row"
    /\ db' = [db EXCEPT !.media = @ \ {Media}]
    /\ route' = Goto("done", 0)
    /\ UNCHANGED <<service, reply, keyframe_result, bucket, objects,
                   frame_indices, keyframe_results, points>>

\* db.commit raises: Keyframe.media_id is a foreign key to media.id with no
\* ondelete and no cascade, and rows of the media item are still there
DeleteMediaRowFails ==
    /\ route.pc = "delete_media_row"
    /\ RowsOfMedia(db.keyframes, Media.id) # {}
    /\ route' = Goto("failed", 0)
    /\ UNCHANGED <<service, reply, keyframe_result, bucket, objects,
                   frame_indices, keyframe_results, db, points>>

DeleteNext ==
    \/ DeleteMediaFile
    \/ DeleteKeyframes
    \/ DeleteEmbeddings
    \/ DeleteMediaRow
    \/ DeleteMediaRowFails

DeleteSpec == DeleteInit /\ [][DeleteNext]_vars

\* --------------------------------------------------------------- typing
TypeOK ==
    /\ video \in Videos
    /\ pc \in {"idle", "load_video", "score", "extract", "shot", "embed",
               "save", "save_keyframes", "respond", "except", "done"}
    /\ request.output_directory \in OutputDirectories
    /\ Cardinality(response) <= 1
    /\ Cardinality(prev) <= 1
    /\ Cardinality(failure) <= 1

\* ================================================================ claims
NumFrames == Len(ReadFrames)

StrictlyIncreasing(q) == \A k \in 1..(Len(q) - 1) : q[k] < q[k + 1]

NoDuplicates(q) == \A j, k \in 1..Len(q) : j # k => q[j] # q[k]

\* the request got past parsing and no save_* call raised
NoRequestOrSaveFault == \A f \in failure : f.kind \notin {"request", "save"}

\* the exception being propagated comes from a model collaborator
ModelFailure == \E f \in failure : f.kind \in {"scorer", "embedding"}

\* C1 as stated: the boundaries of every success response are strictly
\* increasing and every reported index b satisfies 0 < b < N.
C1_Original ==
    \A r \in response : \A bs \in r.shot_boundaries :
        /\ StrictlyIncreasing(bs)
        /\ \A k \in 1..Len(bs) : 0 < bs[k] /\ bs[k] < NumFrames

\* C1 amended: the boundaries of every success response are strictly
\* increasing and every reported index b satisfies 0 <= b < N; N is never
\* reported, and 0 is reported exactly when the score of frame 0 exceeds the
\* threshold.
C1_BoundariesInRange ==
    \A r \in response : \A bs \in r.shot_boundaries :
        /\ StrictlyIncreasing(bs)
        /\ \A k \in 1..Len(bs) : 0 <= bs[k] /\ bs[k] < NumFrames
        /\ NumFrames > 0 => (0 \in Range(bs) <=> video.scores[1] > Threshold)

C1_Witness ==
    \E r \in response : \E bs \in r.shot_boundaries :
        Len(bs) >= 2 /\ bs[1] = 0 /\ bs[Len(bs)] = NumFrames - 1

\* C2: the keyframes of every success response are strictly increasing
\* (hence free of duplicates) and every one lies in [0, N).
C2_KeyframesIncreasing ==
    \A r \in response : \A ks \in r.keyframes :
        /\ StrictlyIncreasing(ks)
        /\ NoDuplicates(ks)
        /\ \A k \in 1..Len(ks) : 0 <= ks[k] /\ ks[k] < NumFrames

C2_Witness ==
    \E r \in response : \E ks \in r.keyframes : \E bs \in r.shot_boundaries :
        Len(ks) >= 2 /\ Len(bs) = 0

\* C3: a readable video with zero frames, in a request that parsed and
\* whose save step did not raise, is answered with status "success", empty
\* shot_boundaries and empty keyframes, and neither the transition scorer
\* nor the embedding provider has been called.
C3_ZeroFrames ==
    (pc = "done" /\ video.readable /\ NumFrames = 0 /\ NoRequestOrSaveFault)
        => /\ response = Some(SuccessResponse(<<>>, <<>>))
           /\ scorer_calls = <<>>
           /\ embed_calls = <<>>

C3_Witness ==
    /\ pc = "done"
    /\ video.readable
    /\ NumFrames = 0
    /\ request.output_directory # None
    /\ \E r \in response : r.status = "success"

\* C4: a response is either a success (message null, both lists present)
\* or an error (status "error", both lists null, a message); nothing else.
C4_PayloadShape ==
    \A r \in response :
        \/ /\ r.status = "success"
           /\ r.message = None
           /\ r.shot_boundaries # None
           /\ r.keyframes # None
        \/ /\ r.status = "error"
           /\ r.message # None
           /\ r.shot_boundaries = None
           /\ r.keyframes = None

C4_Witness ==
    /\ \E r \in response : r.status = "error"
    /\ \E f \in failure : f.kind = "embedding"
    /\ shot_boundaries # <<>>
    /\ all_keyframes # <<>>

\* C5 as stated: a video source that cannot be opened ends the request with
\* the error payload.
C5_UnreadableIsError ==
    (pc = "done" /\ ~video.readable)
        => \A r \in response : r.status = "error"

\* C6: once the scorer or the embedding provider has failed, no further
\* scorer or embedding call is made, no call is ever made twice on the same
\* chunk or frame, the handler goes straight to its except clause, and the
\* response is the error payload without boundaries and keyframes.
C6_AbortOnModelFailure ==
    /\ NoDuplicates(scorer_calls)
    /\ NoDuplicates(embed_calls)
    /\ \A f \in failure :
          /\ pc \in {"except", "done"}
          /\ scorer_calls = f.scorer_calls
          /\ embed_calls = f.embed_calls
    /\ ModelFailure =>
          \A r \in response :
              /\ r.status = "error"
              /\ r.shot_boundaries = None
              /\ r.keyframes = None

C6_Witness ==
    /\ pc = "done"
    /\ \E f \in failure : f.kind = "embedding"
    /\ Len(embed_calls) >= 2
    /\ Len(scorer_calls) >= 2
    /\ shot_boundaries # <<>>
    /\ all_keyframes # <<>>

\* C7 as stated: a request with an output directory, none of whose model
\* calls failed, gets the payload the same video got without one.
C7_SinkChangesNothing ==
    (pc = "done" /\ request.output_directory # None /\ ~ModelFailure)
        => \A p \in prev :
              p.output_directory = None => response = Some(p.response)

\* C8: a request that succeeds gets the shot_boundaries and keyframes the
\* last successful request with the same parameters got on this video.
C8_Deterministic ==
    \A r \in response : \A p \in prev :
        (r.status = "success" /\ p.output_directory = request.output_directory)
            => /\ r.shot_boundaries = p.response.shot_boundaries
               /\ r.keyframes = p.response.keyframes

C8_Witness ==
    \E r \in response : \E p \in prev : \E ks \in r.keyframes :
        /\ r.status = "success"
        /\ p.output_directory = request.output_directory
        /\ hdb[0] # None
        /\ Len(ks) >= 2

\* C9: select_keyframes on a shot of n frames, 1 <= n < min_cluster_size,
\* returns exactly one keyframe, the first frame index of the shot, whatever
\* the feature vectors.
C9_SmallShotFirstFrame ==
    \A c \in sel :
        (~c.clustered /\ Len(c.shot_indices) >= 1)
            => ~c.raised /\ c.keyframes = <<c.shot_indices[1]>>

C9_Witness ==
    \E c \in sel :
        /\ ~c.clustered
        /\ Len(c.shot_indices) = MinClusterSize - 1
        /\ c.shot_indices[1] > 0
        /\ c.shot_features[1] # c.shot_features[2]
        /\ c.keyframes = <<c.shot_indices[1]>>

\* C10: select_keyframes on a shot of min_cluster_size frames or more that
\* HDBSCAN labels all noise returns exactly one keyframe, the first frame
\* index of the shot, whatever the feature vectors.
C10_AllNoiseFirstFrame ==
    \A c \in sel :
        (c.clustered /\ \A k \in 1..Len(c.fit_predict) : c.fit_predict[k] = Noise)
            => ~c.raised /\ c.keyframes = <<c.shot_indices[1]>>

C10_Witness ==
    \E c \in sel :
        /\ c.clustered
        /\ \A k \in 1..Len(c.fit_predict) : c.fit_predict[k] = Noise
        /\ c.shot_features[1] # c.shot_features[2]
        /\ c.keyframes = <<c.shot_indices[1]>>

\* the labels adaptive_clustering hands select_keyframes in the call c
LabelsOf(c) ==
    adaptive_clustering(c.shot_features, MinClusterSize, c.fit_predict).labels

\* C11: when the shot has exactly one frame, or clustering yields exactly one
\* non-noise cluster and no noise frame, select_keyframes returns exactly one
\* keyframe, the first frame index of the shot, whatever the feature vectors.
C11_SingleClusterFirstFrame ==
    \A c \in sel :
        LET labels == LabelsOf(c)
        IN  (\/ Len(c.shot_indices) = 1
             \/ /\ Cardinality(Range(labels) \ {Noise}) = 1
                /\ Noise \notin Range(labels))
                => ~c.raised /\ c.keyframes = <<c.shot_indices[1]>>

\* HDBSCAN put every frame of a shot into one cluster whose mean lies nearer
\* to the later frames than to the first, and the first frame was returned
C11_Witness ==
    \E c \in sel :
        /\ c.clustered
        /\ Len(c.shot_indices) >= 3
        /\ \A k \in 1..Len(c.fit_predict) : c.fit_predict[k] = MaxLabel
        /\ c.shot_features[1] # c.shot_features[2]
        /\ \A k \in 2..Len(c.shot_features) :
              c.shot_features[k] = c.shot_features[2]
        /\ c.keyframes = <<c.shot_indices[1]>>

\* positions (1-based, within the shot) of the frames labelled l
MembersOf(labels, l) == {p \in 1..Len(labels) : labels[p] = l}

\* the squared distance of every member of cluster l from the mean of the
\* feature vectors of the cluster, in the call c with the given labels
DistancesOf(c, labels, l) ==
    LET cluster_indices == ClusterIndices(labels, l)
        centroid == Mean([m \in 1..Len(cluster_indices) |->
                            c.shot_features[cluster_indices[m]]])
    IN  [p \in MembersOf(labels, l) |-> Distance(c.shot_features[p], centroid)]

\* lines 202-204 do not answer a call with these labels: the shot has more
\* than one frame and its labels hold two clusters or more, or one cluster
\* and a noise frame
LoopRuns(labels) ==
    /\ Len(labels) > 1
    /\ Cardinality(Range(labels) \ {Noise}) >= 1
    /\ \/ Cardinality(Range(labels) \ {Noise}) >= 2
       \/ Noise \in Range(labels)

\* C12: when clustering yields k non-noise clusters and the first-frame
\* shortcut does not apply, select_keyframes returns exactly k keyframes, one
\* per cluster; each is a member of its cluster whose feature vector is at
\* minimum Euclidean distance from that cluster's mean; no noise frame is
\* ever selected.
C12_OnePerCluster ==
    \A c \in sel :
        LET labels == LabelsOf(c)
            chosen == {p \in 1..Len(c.shot_indices) :
                          c.shot_indices[p] \in Range(c.keyframes)}
        IN  LoopRuns(labels) =>
                /\ ~c.raised
                /\ Len(c.keyframes) = Cardinality(Range(labels) \ {Noise})
                /\ \A l \in Range(labels) \ {Noise} :
                      LET d == DistancesOf(c, labels, l)
                      IN  \E p \in DOMAIN d :
                              /\ chosen \cap DOMAIN d = {p}
                              /\ \A q \in DOMAIN d : d[p] <= d[q]
                /\ \A p \in chosen : labels[p] # Noise

\* a shot of one noise frame and one cluster of three frames whose first
\* member lies farther from the mean than the others: a later member is the
\* keyframe
C12_Witness ==
    \E c \in sel :
        LET labels == LabelsOf(c)
        IN  /\ LoopRuns(labels)
            /\ Noise \in Range(labels)
            /\ \E l \in Range(labels) \ {Noise} :
                  LET d == DistancesOf(c, labels, l)
                  IN  /\ Cardinality(DOMAIN d) >= 3
                      /\ \E p, q \in DOMAIN d :
                            /\ p < q
                            /\ d[q] < d[p]
                            /\ c.shot_indices[q] \in Range(c.keyframes)

\* C17 as stated: select_keyframes called on a shot of zero frames returns
\* the empty sequence: it neither fails nor emits an index.
C17_EmptyShotEmptyResult ==
    \A c \in sel :
        Len(c.shot_indices) = 0 => ~c.raised /\ c.keyframes = <<>>

\* C18: when two or more frames of a cluster lie at the same minimum distance
\* from the cluster mean, the keyframe of that cluster is the one with the
\* lowest frame index.
C18_TieLowestIndex ==
    \A c \in sel :
        LET labels == LabelsOf(c)
        IN  LoopRuns(labels) =>
                \A l \in Range(labels) \ {Noise} :
                    LET d == DistancesOf(c, labels, l)
                        nearest == {p \in DOMAIN d :
                                       \A q \in DOMAIN d : d[p] <= d[q]}
                        lowest == CHOOSE p \in nearest :
                                      \A q \in nearest :
                                          c.shot_indices[p] <= c.shot_indices[q]
                    IN  /\ c.shot_indices[lowest] \in Range(c.keyframes)
                        /\ \A q \in nearest \ {lowest} :
                              c.shot_indices[q] \notin Range(c.keyframes)

\* a cluster of three frames, two of them at the same minimum distance from
\* the mean and the third farther away and first in the shot: the keyframe
\* is the earlier of the two
C18_Witness ==
    \E c \in sel :
        LET labels == LabelsOf(c)
        IN  /\ LoopRuns(labels)
            /\ \E l \in Range(labels) \ {Noise} :
                  LET d == DistancesOf(c, labels, l)
                  IN  \E o, p, q \in DOMAIN d :
                          /\ o < p /\ p < q
                          /\ d[p] = d[q]
                          /\ d[p] < d[o]
                          /\ c.shot_indices[p] \in Range(c.keyframes)
                          /\ c.shot_indices[q] \notin Range(c.keyframes)

\* the frames of the full-resolution video that lie in the shot sh
FramesOf(sh) == Range(Slice(all_indices, sh[1], sh[2]))

\* C13: for every sorted boundary list within [0, N], segmenting by
\* [0] + boundaries + [N] gives contiguous, non-overlapping shots that cover
\* [0, N) exactly once; the first shot starts at 0 and the last ends at N;
\* boundaries [10, 25] with N = 30 give [0,10), [10,25), [25,30).
C13_ShotsPartition ==
    /\ Shots(Padded(<<10, 25>>, 30)) = <<<<0, 10>>, <<10, 25>>, <<25, 30>>>>
    /\ pc = "shot" =>
          LET shots == Shots(shot_bounds)
              N == Len(all_indices)
          IN  /\ Len(shots) = Len(shot_boundaries) + 1
              /\ shots[1][1] = 0
              /\ shots[Len(shots)][2] = N
              /\ \A k \in 1..Len(shots) : shots[k][1] <= shots[k][2]
              /\ \A k \in 1..(Len(shots) - 1) : shots[k][2] = shots[k + 1][1]
              /\ \A f \in 0..(N - 1) :
                    Cardinality({k \in 1..Len(shots) :
                                    f \in FramesOf(shots[k])}) = 1
              /\ \A k \in 1..Len(shots) : FramesOf(shots[k]) \subseteq 0..(N - 1)

\* a video segmented at two distinct boundaries into three non-empty shots
C13_Witness ==
    /\ pc = "shot"
    /\ Len(shot_boundaries) = 2
    /\ \A k \in 1..Len(Shots(shot_bounds)) :
          FramesOf(Shots(shot_bounds)[k]) # {}

\* some shot of the segmentation in use has start = end
HasEmptyShot ==
    \E k \in 1..Len(Shots(shot_bounds)) :
        Shots(shot_bounds)[k][1] = Shots(shot_bounds)[k][2]

\* C19: a shot with start = end (the shot [0, 0) when frame 0 is a boundary)
\* is skipped: neither the embedding provider nor select_keyframes is run
\* for it, it contributes no keyframe, and the request, unless the embedding
\* provider or a save_* call raises, still ends with status "success".
C19_EmptyShotSkipped ==
    /\ pc = "embed" => Len(ShotIndices) > 0
    /\ \A c \in sel : Len(c.shot_indices) > 0
    /\ \A f \in failure : f.kind # "select"
    /\ (pc = "shot" /\ \A k \in 1..s :
                          Shots(shot_bounds)[k][1] = Shots(shot_bounds)[k][2])
          => all_keyframes = <<>>
    /\ (/\ pc = "done"
        /\ HasEmptyShot
        /\ \A f \in failure : f.kind \notin {"embedding", "save"})
          => \E r \in response : r.status = "success"

\* frame 0 of a video of two frames or more was reported as a boundary, the
\* shot [0, 0) was passed over, and the request ended with keyframes
C19_Witness ==
    /\ pc = "done"
    /\ NumFrames >= 2
    /\ Len(shot_bounds) >= 2
    /\ shot_bounds[1] = shot_bounds[2]
    /\ \E r \in response :
          /\ r.status = "success"
          /\ r.keyframes # Some(<<>>)

\* C20: the raw scores returned by detect_shot_boundaries have exactly N
\* entries, in frame order, and frame i is a boundary exactly when its score
\* is strictly above the threshold: a score equal to it is no boundary.
C20_ScoresAndThreshold ==
    pc = "extract" =>
        /\ Len(all_predictions) = NumFrames
        /\ Range(shot_boundaries) \subseteq 0..(NumFrames - 1)
        /\ \A f \in 0..(NumFrames - 1) :
              /\ all_predictions[f + 1] = video.scores[f + 1]
              /\ f \in Range(shot_boundaries)
                    <=> all_predictions[f + 1] > Threshold

\* a video longer than one chunk with a frame scored exactly at the
\* threshold, not reported, and a frame scored above it, reported
C20_Witness ==
    /\ pc = "extract"
    /\ NumFrames > ChunkSize
    /\ \E f, g \in 0..(NumFrames - 1) :
          /\ all_predictions[f + 1] = Threshold
          /\ f \notin Range(shot_boundaries)
          /\ all_predictions[g + 1] > Threshold
          /\ g \in Range(shot_boundaries)

\* C14 as stated: the raw scores and the boundaries detect_shot_boundaries
\* returns by scoring consecutive chunks equal those of scoring the whole
\* sequence in one scorer call.
C14_ChunkingInvisible ==
    pc = "extract" =>
        /\ all_predictions = video.one_call
        /\ shot_boundaries = Boundaries(video.one_call, Threshold)

\* the value a request asks for: the override of its body when there is
\* one, the default otherwise
Effective(override, default) ==
    IF override = None THEN default ELSE CHOOSE x \in override : TRUE

\* C15 as stated: the threshold, chunk_size and min_cluster_size a request
\* supplies are the ones boundary detection and the keyframe selector use
\* for that request; the defaults apply only when an override is absent.
C15_OverridesUsed ==
    /\ pc = "extract" =>
          shot_boundaries =
              Boundaries(all_predictions, Effective(data.threshold, Threshold))
    /\ \A k \in 1..Len(scorer_calls) :
          Len(scorer_calls[k]) <= Effective(data.chunk_size, ChunkSize)
    /\ \A c \in sel :
          c.clustered <=>
              Len(c.shot_indices)
                  >= Effective(data.min_cluster_size, MinClusterSize)

\* the keyframes of the shots k, k + 1, ... of a video handled on its own:
\* the first frame of a shot shorter than min_cluster_size, the frames
\* HDBSCAN's labelling gives for a longer one
RECURSIVE AloneKeyframesFrom(_, _)
AloneKeyframesFrom(shots, k) ==
    IF k > Len(shots) THEN <<>>
    ELSE LET a == shots[k][1]
             b == shots[k][2]
             rest == AloneKeyframesFrom(shots, k + 1)
         IN  IF a = b THEN rest
             ELSE IF b - a < MinClusterSize THEN <<a>> \o rest
             ELSE IF hdb[a] = None THEN rest
             ELSE (CHOOSE ks \in hdb[a] : TRUE) \o rest

\* the payload of a request for the video handled on its own
AlonePayload ==
    LET boundaries == Boundaries(video.scores, Threshold)
    IN  SuccessResponse(
            boundaries,
            Sorted(AloneKeyframesFrom(Shots(Padded(boundaries, NumFrames)), 1)))

\* C16: requests share no mutable state: however two invocations of one
\* instance are interleaved, each successful request gets the payload the
\* video gets when handled on its own, and the instance (its CLIP model) is
\* after every step as __init__ left it.
C16_NoSharedState ==
    /\ clip_model = LoadedClipModel
    /\ \A r \in response : r.status = "success" => r = AlonePayload

\* a request ends with keyframes of two shots or more while another
\* invocation, entered before it was resumed, waits for its body, and a
\* third request was answered earlier
C16_Witness ==
    /\ pc = "done"
    /\ \E h \in Handlers : suspended[h] # None
    /\ prev # None
    /\ \E r \in response : \E ks \in r.keyframes :
          /\ r.status = "success"
          /\ Len(ks) >= 2
    /\ clip_model = LoadedClipModel

\* detect_shot_boundaries has returned to __call__ without raising
Detected ==
    pc \in {"extract", "shot", "embed", "save", "save_keyframes", "respond"}

\* C21: for N frames and chunk size c the transition scorer is called, in
\* order, on the consecutive chunks [0, c), [c, 2c), ...: each holds at most
\* c frames, only the last may hold fewer, every frame lies in exactly one,
\* and once detection has returned there have been exactly ceil(N / c)
\* calls.
C21_ChunkedCalls ==
    /\ \A k \in 1..Len(scorer_calls) :
          LET lo == (k - 1) * ChunkSize
              m == IF NumFrames - lo < ChunkSize
                   THEN NumFrames - lo ELSE ChunkSize
          IN  /\ m >= 1
              /\ scorer_calls[k] = [j \in 1..m |-> lo + j - 1]
    /\ Detected =>
          /\ (Len(scorer_calls) - 1) * ChunkSize < NumFrames
          /\ NumFrames <= Len(scorer_calls) * ChunkSize
          /\ \A f \in 0..(NumFrames - 1) :
                Cardinality({k \in 1..Len(scorer_calls) :
                                f \in Range(scorer_calls[k])}) = 1

\* detection returned after two calls or more, the last on a short chunk
C21_Witness ==
    /\ pc = "extract"
    /\ Len(scorer_calls) >= 2
    /\ Len(scorer_calls[Len(scorer_calls)]) < ChunkSize
    /\ Len(scorer_calls[1]) = ChunkSize

\* extract_keyframes has returned to __call__ without raising
Extracted == pc \in {"save", "save_keyframes", "respond"}

\* C22: the embedding provider is called on the frames in increasing index
\* order, each frame once; in a request that succeeds it has been called
\* exactly N times; the feature sequence handed to select_keyframes has the
\* length of the shot and its i-th vector is the embedding of the shot's
\* i-th frame.
C22_EmbeddingOncePerFrame ==
    /\ \A k \in 1..Len(embed_calls) : embed_calls[k] = k - 1
    /\ (Extracted \/ \E r \in response : r.status = "success")
          => embed_calls = Upto(NumFrames)
    /\ pc = "embed" =>
          \A k \in 1..Len(shot_features) :
              shot_features[k] = video.feats[ShotIndices[k] + 1]
    /\ \A c \in sel :
          /\ Len(c.shot_features) = Len(c.shot_indices)
          /\ \A k \in 1..Len(c.shot_indices) :
                c.shot_features[k] = video.feats[c.shot_indices[k] + 1]

\* a successful request on a video cut into two shots or more, with frames
\* of different embeddings
C22_Witness ==
    /\ pc = "done"
    /\ \E r \in response : r.status = "success"
    /\ Len(shot_boundaries) >= 1
    /\ shot_boundaries[1] > 0
    /\ Len(embed_calls) = NumFrames
    /\ NumFrames >= 3
    /\ video.feats[1] # video.feats[2]

\* the stage order as it shows in a state: no embedding call while chunks
\* are still to be scored, and a shot is clustered right after the
\* embedding call on its last frame
StagesInOrder ==
    /\ pc \in {"load_video", "score"} => embed_calls = <<>>
    /\ \A f \in failure : f.kind = "scorer" => embed_calls = <<>>
    /\ embed_calls # <<>> =>
          /\ (Len(scorer_calls) - 1) * ChunkSize < NumFrames
          /\ NumFrames <= Len(scorer_calls) * ChunkSize
    /\ \A c \in sel :
          /\ Len(c.shot_features) = Len(c.shot_indices)
          /\ Range(c.shot_indices) \subseteq Range(embed_calls)
          /\ embed_calls[Len(embed_calls)]
                = c.shot_indices[Len(c.shot_indices)]

\* collaborator calls made by one step of the handler
CallsInStep ==
    (Len(scorer_calls') - Len(scorer_calls))
    + (Len(embed_calls') - Len(embed_calls))
    + (IF sel' # sel /\ \E c \in sel' : c.clustered THEN 1 ELSE 0)

\* C23: the stages of a request run strictly in sequence: every call of the
\* transition scorer is over before the first embedding call, the embedding
\* calls of a shot are over before the shot is clustered, and no step of
\* the handler has more than one collaborator call in progress.
C23_StagesInSequence ==
    /\ []StagesInOrder
    /\ [][pc' # "idle" => CallsInStep <= 1]_vars

\* a shot has just been clustered after two scorer calls or more and the
\* embedding calls of its frames
C23_Witness ==
    /\ pc = "shot"
    /\ \E c \in sel : c.clustered
    /\ Len(scorer_calls) >= 2
    /\ Len(embed_calls) >= MinClusterSize

\* the number of cv2.imwrite calls made for the frame f under the name kind
TimesSaved(kind, f) ==
    Cardinality({k \in 1..Len(saved) : saved[k] = <<kind, f>>})

\* C24: in a request with an output directory whose save_* calls have
\* returned, a frame is written exactly once as a boundary frame for every
\* index in shot_boundaries, exactly once as a keyframe for every index in
\* keyframes, under that frame's index, and no other frame is written;
\* nothing is written before both lists are complete.
C24_SinkOncePerIndex ==
    /\ pc \in {"idle", "load_video", "score", "extract", "shot", "embed",
                "save"} => saved = <<>>
    /\ (/\ request.output_directory # None
        /\ \/ pc = "respond"
           \/ \E r \in response : r.status = "success")
          => /\ \A f \in 0..(NumFrames - 1) :
                  /\ TimesSaved("boundary", f)
                       = IF f \in Range(shot_boundaries) THEN 1 ELSE 0
                  /\ TimesSaved("keyframe", f)
                       = IF f \in Range(keyframe_indices) THEN 1 ELSE 0
             /\ Len(saved) = Len(shot_boundaries) + Len(keyframe_indices)
    /\ request.output_directory = None => saved = <<>>

\* a request with an output directory succeeded with a boundary that is no
\* keyframe and a keyframe that is no boundary
C24_Witness ==
    /\ pc = "done"
    /\ request.output_directory # None
    /\ \E r \in response : r.status = "success"
    /\ \E b \in Range(shot_boundaries) : b \notin Range(keyframe_indices)
    /\ \E k \in Range(keyframe_indices) : k \notin Range(shot_boundaries)
    /\ Len(saved) >= 3

\* the shots of the segmentation in use that hold a frame or more
NonEmptyShots ==
    {k \in 1..Len(Shots(shot_bounds)) :
        Shots(shot_bounds)[k][1] < Shots(shot_bounds)[k][2]}

\* C30: in a request that succeeds every non-empty shot [start, end) has a
\* keyframe k with start <= k < end, every keyframe select_keyframes returns
\* for a shot is a frame of that shot, and there are at least as many
\* keyframes as non-empty shots.
C30_ShotsContribute ==
    /\ \A c \in sel :
          ~c.raised =>
              /\ Len(c.keyframes) >= 1
              /\ Range(c.keyframes) \subseteq Range(c.shot_indices)
    /\ (Extracted \/ \E r \in response : r.status = "success") =>
          /\ \A k \in NonEmptyShots :
                \E kf \in Range(keyframe_indices) :
                    /\ Shots(shot_bounds)[k][1] <= kf
                    /\ kf < Shots(shot_bounds)[k][2]
          /\ Len(keyframe_indices) >= Cardinality(NonEmptyShots)

\* a successful request on a video of two non-empty shots or more, the
\* second of which does not start at frame 0
C30_Witness ==
    /\ pc = "done"
    /\ \E r \in response : r.status = "success"
    /\ Cardinality(NonEmptyShots) >= 2
    /\ Len(keyframe_indices) >= 2

\* the call of extract_keyframes has ended, by a return or by a raise
ClientReturned == route.pc = "returned" /\ keyframe_result # None

IsList(key) == key.present /\ key.value # None

Processed == route.pc = "results" /\ keyframe_results # None

\* C29: process_keyframes_from_video returns the empty list when the video
\* data cannot be fetched; otherwise it returns exactly one result per
\* requested index, in request order, each carrying that frame_idx, and a
\* frame that could not be extracted or saved has success = false in its own
\* result only.
C29_OneResultPerIndex ==
    Processed =>
        \A b \in bucket : \A results \in keyframe_results :
            /\ b.video # "bytes" => results = <<>>
            /\ b.video = "bytes" =>
                  /\ Len(results) = Len(frame_indices)
                  /\ \A k \in 1..Len(frame_indices) :
                        /\ results[k].frame_idx = frame_indices[k]
                        /\ results[k].success <=> b.answers[k] = "ok"

\* the first of three requested frames could not be extracted, the second
\* could not be saved and the third was saved
C29_Witness ==
    /\ Processed
    /\ \E b \in bucket : \E results \in keyframe_results :
          /\ b.video = "bytes"
          /\ Len(frame_indices) = 3
          /\ b.answers[1] = "no_frame"
          /\ b.answers[2] = "not_saved"
          /\ Len(results) = 3
          /\ ~results[1].success
          /\ ~results[2].success
          /\ results[3].success

\* what process_keyframes_from_video returned to upload_media, if it ran
ResultsOrNone ==
    IF keyframe_results = None THEN <<>>
    ELSE CHOOSE results \in keyframe_results : TRUE

\* the loop turns whose embedding is in the vector database and has its
\* MediaEmbedding row
Stored == points \cap {e.embedding_id : e \in db.embeddings}

\* C27: during a video upload a keyframe image is deleted from object
\* storage only after its embedding has been stored in the vector database
\* and the MediaEmbedding row has been created: delete_file is reached only
\* with a vector, a successful create_point and the row, and an image that
\* is gone was the image of a result whose turn stored both; after an empty
\* embedding, a failed vector store write or an exception the image stays.
C27_DeleteAfterEmbedding ==
    /\ route.pc = "delete_file" =>
          /\ route.embedding_vector = "vector"
          /\ route.qdrant_success = "true"
          /\ route.k \in Stored
    /\ \A key \in Uploaded(ResultsOrNone) \ objects :
          \E k \in Stored :
              /\ ResultsOrNone[k].success
              /\ ResultsOrNone[k].frame_idx = key

\* an upload has ended with the image of its first keyframe deleted and the
\* image of its second keyframe kept, the vector store having refused it
C27_Witness ==
    /\ route.pc = "done"
    /\ frame_indices = <<0, 2>>
    /\ Uploaded(ResultsOrNone) = {0, 2}
    /\ objects = {2}
    /\ 1 \in Stored
    /\ route.qdrant_success = "false"
    /\ points = {1}

\* the Keyframe rows with frame index f, and the saved results with it
RowsOf(f) == {k \in 1..Len(db.keyframes) : db.keyframes[k].frame_idx = f}

SavedOf(f) ==
    {k \in 1..Len(ResultsOrNone) :
        ResultsOrNone[k].success /\ ResultsOrNone[k].frame_idx = f}

\* C28: a video upload that passed the album, type and storage checks
\* creates the Media row and, whatever the keyframe step does, goes on
\* until it returns the media response; Keyframe rows exist only when the
\* extraction reported status "success" with a non-empty keyframes list, and
\* only for frame indices whose image was saved, at most one row per
\* returned index.
C28_UploadAlwaysAnswers ==
    /\ route.pc # "create_media" => VideoMedia \in db.media
    /\ route.pc # "done" => ENABLED UploadNext
    /\ db.keyframes # <<>> =>
          \E out \in keyframe_result :
              /\ out.dict.status = Some("success")
              /\ IsList(out.dict.keyframes)
              /\ out.dict.keyframes # List(<<>>)
              /\ frame_indices \in out.dict.keyframes.value
    /\ \A k \in 1..Len(db.keyframes) :
          /\ db.keyframes[k].media_id = VideoMedia.id
          /\ Cardinality(RowsOf(db.keyframes[k].frame_idx))
                <= Cardinality(SavedOf(db.keyframes[k].frame_idx))

\* an upload has returned with one Keyframe row, for the second of two
\* returned indices, the image of the first not having been saved
C28_Witness ==
    /\ route.pc = "done"
    /\ VideoMedia \in db.media
    /\ Len(ResultsOrNone) = 2
    /\ ~ResultsOrNone[1].success
    /\ Len(db.keyframes) = 1
    /\ db.keyframes[1].frame_idx = ResultsOrNone[2].frame_idx

\* an upload has returned with its Media row and no Keyframe row after the
\* extraction service answered with its error payload
C28_ServiceErrorWitness ==
    /\ route.pc = "done"
    /\ reply = Some(ServiceErrorReply)
    /\ VideoMedia \in db.media
    /\ db.keyframes = <<>>

\* delete_keyframes_by_media has returned to delete_media
KeyframesDeleted ==
    route.pc \in {"delete_embeddings", "delete_media_row", "done", "failed"}

\* C26 as stated: delete_keyframes_by_media deletes all keyframes of a media
\* item: for any number of Keyframe rows of a video, once it has returned,
\* and so after delete_media completes, no Keyframe row with that media_id
\* remains.
C26_AllKeyframesDeleted ==
    KeyframesDeleted =>
        \A media \in {VideoMedia, PhotoMedia} :
            (media \in db.media \/ route.pc = "done")
                => RowsOfMedia(db.keyframes, media.id) = {}

\* C26, what holds: delete_keyframes_by_media deletes the rows its one query
\* returns, the first DefaultLimit rows of the media item; a video with no
\* more rows than that has none left, and the rows of other media stay.
C26_FirstRowsDeleted ==
    KeyframesDeleted =>
        /\ Cardinality(RowsOfMedia(db.keyframes, "other")) = 1
        /\ Cardinality(RowsOfMedia(db.keyframes, VideoMedia.id))
              <= MaxRows - DefaultLimit

\* delete_media has completed for a video while a Keyframe row with its
\* media_id remains
C26_RowsLeftBehind ==
    /\ route.pc = "done"
    /\ db.media = {}
    /\ RowsOfMedia(db.keyframes, VideoMedia.id) # {}

====
